---- MODULE Spec2Model ----
(***************************************************************************)
(* Verification model of the distributed ray tracer:                       *)
(*   - the controller (ray-tracer-controller/src/main.rs): HTTP handlers   *)
(*     index and poll, the worker thread, the busy flag and the two        *)
(*     crossbeam channels between them;                                    *)
(*   - the slave (ray-tracer-slave/src/main.rs): its index handler and     *)
(*     its render worker;                                                  *)
(*   - the coordinator's job table with its submit, result and poll        *)
(*     endpoints, as the specification describes them.                     *)
(* Texts (HTTP bodies, strings) are sequences of tokens; a token is a      *)
(* record, so that texts of different kinds can be compared.               *)
(***************************************************************************)
EXTENDS Integers, Sequences, FiniteSets, Bags, TLC

\* ---------------------------------------------------------------- bounds
\* Number of job ids index may mint (Uuid::new_v4 is modelled as a counter).
MaxJobs == 2
\* Number of HTTP requests the controller serves at the same time.
NumHandlers == 2
\* Frames a slave is asked to render: height and division count.
MaxHeight == 4
MaxDivisions == 3
\* Number of render requests a slave accepts.
MaxRequests == 3
\* Number of slices posted to the coordinator's result endpoint.
MaxPosts == 3
\* Number of jobs in the coordinator's job table.
MaxTableJobs == 2
\* Image sizes of the tiled renderer: rows and pixels per row.
MaxRenderHeight == 3
MaxRenderWidth == 3
\* Largest coordinate of the points drawn (origins, box corners, vertices).
MaxCoord == 3
\* Height in pixels of the image the camera is made for.
CameraImageHeight == 3

\* The most shapes of a scene.
MaxShapes == 2

\* ------------------------------------------------------ program constants
ImageWidth == 1920
ImageHeight == 1080
ImageDivisions == 2
\* The nil uuid: never minted by Uuid::new_v4.
NilUuid == 0

\* ------------------------------------------------------------------ texts
Lit(s) == [lit |-> s]
Px(row) == [row |-> row]
EmptyString == <<>>
Busy == <<Lit("We're busy")>>
Ack == <<Lit("i'll get you a slice at once")>>
\* What a client sees when the handler panics (unwrap on a closed channel).
HandlerPanic == <<Lit("handler panicked")>>
\* Uuid::to_string: the hyphenated text of the uuid (injective).
UuidToString(u) == <<[uuid |-> u]>>
\* json!(s).to_string() of a string s: the JSON string literal.
Json(s) == <<Lit("\"")>> \o s \o <<Lit("\"")>>
\* A path parameter that is not the text of any uuid.
MalformedId == <<Lit("not-a-uuid")>>

VARIABLES
    flag,       \* AppState.flag: the worker is busy
    chanW,      \* channel server -> worker (MessageToWorker)
    chanS,      \* channel worker -> server (MessageToServer::Output)
    results,    \* worker's HashMap<String, String>
    wpc,        \* worker: "recv" | "join" | "dead"
    wid,        \* worker: id of the job being rendered (NilUuid if none)
    slaves,     \* worker: the requests of the job being rendered
    inflight,   \* the HTTP requests being handled: a bag of handler states
    lastAnswer, \* the HTTP response sent in the last step: kind, path and body
    nextUuid,   \* number of uuids minted so far
    issued,     \* job ids returned to clients
    served,     \* history: the first path for which a poll returned an image
    sframe,     \* slave: the frame size of the requests it is sent
    sq,         \* slave: channel index -> worker (MessageToWorker::NewJob)
    spc,        \* slave worker: "recv" | "post" | "dead"
    sreq,       \* slave worker: the request being rendered
    img_buff,   \* slave worker: the pixel buffer, one entry per buffer row
    posts,      \* history: the ImageSlices posted to /result, in order
    accepted,   \* history: the requests index has accepted, in order
    jobs,       \* coordinator job table: id -> RenderJob
    tnext,      \* coordinator job table: number of job ids minted
    tlast,      \* coordinator job table: the last request served and its answer
    rsize,      \* tiled renderer: the image's width and height in pixels
    render_buff, \* tiled renderer: img_buff, the pixel bytes
    rprog,      \* tiled renderer: per row task, the pixels of its row written so far
    camera,     \* the Camera of render
    shot,       \* the last get_ray call: its samples, its locals and the Ray returned
    probe,      \* intersection kernels: the ray and the box or shapes under test
    verdict     \* intersection kernels: per test run on probe, its result

cvars == <<flag, chanW, chanS, results, wpc, wid, slaves, inflight, lastAnswer,
           nextUuid, issued, served>>

svars == <<sframe, sq, spc, sreq, img_buff, posts, accepted>>

tvars == <<jobs, tnext, tlast>>

rvars == <<rsize, render_buff, rprog>>

\* The local renderer and the geometry it uses.
kvars == <<camera, shot>>

\* The intersection kernels under test.
bvars == <<probe, verdict>>

gvars == <<rvars, kvars, bvars>>

vars == <<cvars, svars, tvars, gvars>>

\* ------------------------------------------------------------- controller
\* RenderMeta::from_image_divisions(width, height, divisions): the id field is
\* not derived from the job (the job id is no argument); u is the id it gets.
from_image_divisions(w, h, d, u) ==
    [width |-> w, height |-> h, divisions |-> d, id |-> u]

\* Ids a RenderMeta built without the job id can carry: the nil uuid or a
\* uuid of its own.
MetaUuids == {NilUuid, MaxJobs + 1}

\* The vec! of requests of worker: division 0, then division 1 built from ..r.
Dispatch(r) ==
    << [req |-> r, st |-> "pending", body |-> EmptyString],
       [req |-> [r EXCEPT !.division_no = 1], st |-> "pending", body |-> EmptyString] >>

RECURSIVE FoldConcat(_)
\* fold(String::new(), |a, b| a + &b) over the response texts, in vec order.
FoldConcat(rs) ==
    IF rs = <<>> THEN EmptyString
    ELSE FoldConcat(SubSeq(rs, 1, Len(rs) - 1)) \o rs[Len(rs)].body

\* join_all returning as soon as one request has completed.
JoinAny(rs) == \E i \in 1..Len(rs) : rs[i].st # "pending"

\* join_all completes when every request has completed.
JoinDone(rs) == \A i \in 1..Len(rs) : rs[i].st # "pending"

\* results.remove(&id).unwrap_or(String::new())
ResultsRemove(key) ==
    [k \in (DOMAIN results) \ {key} |-> results[k]]

ResultsGet(key) ==
    IF key \in DOMAIN results THEN results[key] ELSE EmptyString

ResultsInsert(key, img) ==
    [k \in (DOMAIN results) \cup {key} |-> IF k = key THEN img ELSE results[k]]

\* Paths a client can poll: the ids it was given (known or no longer known to
\* the worker) and a text that is no uuid.
PollPaths == {UuidToString(u) : u \in issued} \cup {MalformedId}

\* The state of a handler of index that has minted id u and passed the flag.
IndexRequest(u) ==
    [kind |-> "index", pc |-> "send", id |-> u, path |-> EmptyString, late |-> FALSE]

\* The state of a handler of poll: before the send or before the recv.
PollRequest(pc, path, late) ==
    [kind |-> "poll", pc |-> pc, id |-> NilUuid, path |-> path, late |-> late]

Take(r) == inflight (-) SetToBag({r})

Put(r) == inflight (+) SetToBag({r})

Answer(kind, path, resp) == [kind |-> kind, path |-> path, resp |-> resp]

\* No HTTP response is sent in the step.
NoAnswer == Answer("none", EmptyString, EmptyString)

CInit ==
    /\ flag = FALSE
    /\ chanW = <<>>
    /\ chanS = <<>>
    /\ results = <<>>
    /\ wpc = "recv"
    /\ wid = NilUuid
    /\ slaves = <<>>
    /\ inflight = EmptyBag
    /\ lastAnswer = NoAnswer
    /\ nextUuid = 0
    /\ issued = {}
    /\ served = EmptyString

\* index: mint the id, read the flag; "We're busy" when it is set.
IndexCheck ==
    /\ BagCardinality(inflight) < NumHandlers
    /\ IF flag
       THEN /\ lastAnswer' = Answer("index", EmptyString, Busy)
            /\ UNCHANGED <<inflight, nextUuid>>
       ELSE /\ nextUuid < MaxJobs
            /\ nextUuid' = nextUuid + 1
            /\ inflight' = Put(IndexRequest(nextUuid + 1))
            /\ lastAnswer' = NoAnswer
    /\ UNCHANGED <<flag, chanW, chanS, results, wpc, wid, slaves, issued, served>>
    /\ UNCHANGED <<svars, tvars, gvars>>

\* An index that sends NewJob and then answers only once the job is stored.
IndexSendAwait(r) ==
    /\ BagIn(r, inflight)
    /\ r.kind = "index"
    /\ wpc # "dead"
    /\ IF r.id \notin issued
       THEN /\ chanW' = Append(chanW, [type |-> "NewJob", job |-> r.id])
            /\ issued' = issued \cup {r.id}
            /\ lastAnswer' = NoAnswer
            /\ UNCHANGED inflight
       ELSE /\ UuidToString(r.id) \in DOMAIN results
            /\ inflight' = Take(r)
            /\ lastAnswer' = Answer("index", EmptyString, UuidToString(r.id))
            /\ UNCHANGED <<chanW, issued>>
    /\ UNCHANGED <<flag, chanS, results, wpc, wid, slaves, nextUuid, served>>
    /\ UNCHANGED <<svars, tvars, gvars>>

\* index: send NewJob and answer the id (the send fails once the worker is gone).
IndexSend(r) ==
    /\ BagIn(r, inflight)
    /\ r.kind = "index"
    /\ inflight' = Take(r)
    /\ IF wpc = "dead"
       THEN /\ lastAnswer' = Answer("index", EmptyString, HandlerPanic)
            /\ UNCHANGED <<chanW, issued>>
       ELSE /\ chanW' = Append(chanW, [type |-> "NewJob", job |-> r.id])
            /\ lastAnswer' = Answer("index", EmptyString, UuidToString(r.id))
            /\ issued' = issued \cup {r.id}
    /\ UNCHANGED <<flag, chanS, results, wpc, wid, slaves, nextUuid, served>>
    /\ UNCHANGED <<svars, tvars, gvars>>

\* poll: read the flag; "We're busy" when it is set.
PollCheck(path) ==
    /\ BagCardinality(inflight) < NumHandlers
    /\ IF flag
       THEN /\ lastAnswer' = Answer("poll", path, Busy)
            /\ UNCHANGED inflight
       ELSE /\ inflight' = Put(PollRequest("send", path, path = served))
            /\ lastAnswer' = NoAnswer
    /\ UNCHANGED <<flag, chanW, chanS, results, wpc, wid, slaves, nextUuid, issued, served>>
    /\ UNCHANGED <<svars, tvars, gvars>>

\* poll: send Get(id).
PollSend(r) ==
    /\ BagIn(r, inflight)
    /\ r.kind = "poll"
    /\ r.pc = "send"
    /\ IF wpc = "dead"
       THEN /\ inflight' = Take(r)
            /\ lastAnswer' = Answer("poll", r.path, HandlerPanic)
            /\ UNCHANGED chanW
       ELSE /\ inflight' = Take(r) (+) SetToBag({PollRequest("recv", r.path, r.late)})
            /\ chanW' = Append(chanW, [type |-> "Get", key |-> r.path])
            /\ lastAnswer' = NoAnswer
    /\ UNCHANGED <<flag, chanS, results, wpc, wid, slaves, nextUuid, issued, served>>
    /\ UNCHANGED <<svars, tvars, gvars>>

\* poll: state.rx.recv() takes the next Output, whoever it was produced for.
PollRecv(r) ==
    /\ BagIn(r, inflight)
    /\ r.kind = "poll"
    /\ r.pc = "recv"
    /\ inflight' = Take(r)
    /\ IF chanS # <<>>
       THEN /\ lastAnswer' = Answer("poll", r.path, Json(Head(chanS)))
            /\ chanS' = Tail(chanS)
            /\ served' = IF Head(chanS) # EmptyString /\ served = EmptyString
                         THEN r.path ELSE served
       ELSE \* the channel is empty and its sender is gone: recv is Err
            /\ wpc = "dead"
            /\ lastAnswer' = Answer("poll", r.path, EmptyString)
            /\ UNCHANGED <<chanS, served>>
    /\ UNCHANGED <<flag, chanW, results, wpc, wid, slaves, nextUuid, issued>>
    /\ UNCHANGED <<svars, tvars, gvars>>

\* worker: NewJob: set the flag, send one request per element of the vec.
WorkerNewJob ==
    /\ wpc = "recv"
    /\ chanW # <<>>
    /\ Head(chanW).type = "NewJob"
    /\ \E u \in MetaUuids :
          slaves' = Dispatch([render_meta |-> from_image_divisions(ImageWidth, ImageHeight,
                                                                   ImageDivisions, u),
                              division_no |-> 0])
    /\ chanW' = Tail(chanW)
    /\ flag' = TRUE
    /\ wpc' = "join"
    /\ wid' = Head(chanW).job
    /\ lastAnswer' = NoAnswer
    /\ UNCHANGED <<chanS, results, inflight, nextUuid, issued, served>>
    /\ UNCHANGED <<svars, tvars, gvars>>

\* A request reaches the slave, whose index answers at once.
RequestAnswered(i) ==
    /\ wpc = "join"
    /\ i \in 1..Len(slaves)
    /\ slaves[i].st = "pending"
    /\ slaves' = [slaves EXCEPT ![i].st = "ok", ![i].body = Ack]
    /\ lastAnswer' = NoAnswer
    /\ UNCHANGED <<flag, chanW, chanS, results, wpc, wid, inflight, nextUuid, issued, served>>
    /\ UNCHANGED <<svars, tvars, gvars>>

\* A request fails (the slave is unreachable): send() is Err.
RequestFailed(i) ==
    /\ wpc = "join"
    /\ i \in 1..Len(slaves)
    /\ slaves[i].st = "pending"
    /\ slaves' = [slaves EXCEPT ![i].st = "err"]
    /\ lastAnswer' = NoAnswer
    /\ UNCHANGED <<flag, chanW, chanS, results, wpc, wid, inflight, nextUuid, issued, served>>
    /\ UNCHANGED <<svars, tvars, gvars>>

\* worker: join_all is done: unwrap every response, store the image, reset the flag.
WorkerJoin ==
    /\ wpc = "join"
    /\ JoinDone(slaves)
    /\ IF \E i \in 1..Len(slaves) : slaves[i].st = "err"
       THEN \* x.unwrap() panics: the thread ends, the flag stays set
            /\ wpc' = "dead"
            /\ UNCHANGED <<flag, results, wid, slaves>>
       ELSE /\ results' = ResultsInsert(UuidToString(wid), FoldConcat(slaves))
            /\ flag' = FALSE
            /\ wpc' = "recv"
            /\ wid' = NilUuid
            /\ slaves' = <<>>
    /\ lastAnswer' = NoAnswer
    /\ UNCHANGED <<chanW, chanS, inflight, nextUuid, issued, served>>
    /\ UNCHANGED <<svars, tvars, gvars>>

\* worker: Get(id): remove the result (or the empty string) and send it.
WorkerGet ==
    /\ wpc = "recv"
    /\ chanW # <<>>
    /\ Head(chanW).type = "Get"
    /\ chanS' = Append(chanS, ResultsGet(Head(chanW).key))
    /\ results' = ResultsRemove(Head(chanW).key)
    /\ chanW' = Tail(chanW)
    /\ lastAnswer' = NoAnswer
    /\ UNCHANGED <<flag, wpc, wid, slaves, inflight, nextUuid, issued, served>>
    /\ UNCHANGED <<svars, tvars, gvars>>

CNext ==
    \/ IndexCheck
    \/ \E r \in BagToSet(inflight) : IndexSend(r)
    \/ \E p \in PollPaths : PollCheck(p)
    \/ \E r \in BagToSet(inflight) : PollSend(r)
    \/ \E r \in BagToSet(inflight) : PollRecv(r)
    \/ WorkerNewJob
    \/ \E i \in 1..ImageDivisions : RequestAnswered(i)
    \/ \E i \in 1..ImageDivisions : RequestFailed(i)
    \/ WorkerJoin
    \/ WorkerGet

\* ------------------------------------------------------------------ slave
\* The buffer of (height / divisions) rows; buffer row y (from 0) is rendered
\* from scanline height - y - 1 of the frame, whatever the division number.
RenderRows(req) ==
    [i \in 1..(req.render_meta.height \div req.render_meta.divisions) |->
        Px(req.render_meta.height - (i - 1) - 1)]

\* A slice that loses the request's division number.
MakeSliceDivisionZero(req, buff) ==
    [id |-> req.render_meta.id, image |-> buff, division_no |-> 0]

\* ImageSlice { id: req.render_meta.id, image: img_buff, division_no: req.division_no }
MakeSlice(req, buff) ==
    [id |-> req.render_meta.id, image |-> buff, division_no |-> req.division_no]

NoRequest == [render_meta |-> from_image_divisions(0, 0, 0, NilUuid), division_no |-> 0]

SInitAt(frame) ==
    /\ sframe = frame
    /\ sq = <<>>
    /\ spc = "recv"
    /\ sreq = NoRequest
    /\ img_buff = <<>>
    /\ posts = <<>>
    /\ accepted = <<>>

Widths == {1, 2}

\* Job ids of the requests a slave is sent.
SlaveJobIds == {1, 2}

Frames ==
    [width : Widths, height : 1..MaxHeight, divisions : 1..MaxDivisions]

\* The requests a slave is sent: a division of a job's frame.
Requests ==
    { [render_meta |-> from_image_divisions(sframe.width, sframe.height,
                                            sframe.divisions, u),
       division_no |-> d] : u \in SlaveJobIds, d \in 0..(sframe.divisions - 1) }

\* slave index: hand the request to the worker, answer at once.
SlaveIndex(req) ==
    /\ spc # "dead"
    /\ Len(accepted) < MaxRequests
    /\ sq' = Append(sq, req)
    /\ accepted' = Append(accepted, req)
    /\ UNCHANGED <<sframe, spc, sreq, img_buff, posts>>
    /\ UNCHANGED <<cvars, tvars, gvars>>

\* slave worker: take a request and render its buffer.
SlaveRender ==
    /\ spc = "recv"
    /\ sq # <<>>
    /\ sreq' = Head(sq)
    /\ sq' = Tail(sq)
    /\ img_buff' = RenderRows(Head(sq))
    /\ spc' = "post"
    /\ UNCHANGED <<sframe, posts, accepted>>
    /\ UNCHANGED <<cvars, tvars, gvars>>

\* slave worker: post the slice; send().unwrap() panics when the post fails.
SlavePost(ok) ==
    /\ spc = "post"
    /\ posts' = Append(posts, MakeSlice(sreq, img_buff))
    /\ img_buff' = <<>>
    /\ spc' = IF ok THEN "recv" ELSE "dead"
    /\ UNCHANGED <<sframe, sq, sreq, accepted>>
    /\ UNCHANGED <<cvars, tvars, gvars>>

SNext ==
    \/ \E req \in Requests : SlaveIndex(req)
    \/ SlaveRender
    \/ \E ok \in BOOLEAN : SlavePost(ok)

\* ------------------------------------------- coordinator job table
\* The result and poll endpoints over the RenderJob table (upload, /result,
\* /poll): submit creates a job, result ingestion appends a slice, poll
\* assembles and removes a complete job.
InvalidId == <<Lit("invalid id")>>
NoSuchJob == <<Lit("no such job")>>
NotFinished(k, d) == <<Lit("not finished"), [k |-> k, of |-> d]>>
ResultAck == <<Lit("ok")>>
\* The image file made of the assembled pixel bytes.
EncodeImage(pixels) == <<Lit("image")>> \o pixels

\* Division counts a submission fixes.
TableDivisions == {2, 3}

\* Uuid::parse_str of the text a client gives: the uuid, or -1 when malformed.
ParseUuid(path) ==
    IF Len(path) = 1 /\ DOMAIN path[1] = {"uuid"} THEN path[1].uuid ELSE -1

RECURSIVE SortByDivision(_)
\* Stable sort of the slices by division index (insertion of the last slice).
SortByDivision(ss) ==
    IF Len(ss) <= 1 THEN ss
    ELSE LET rest == SortByDivision(SubSeq(ss, 1, Len(ss) - 1))
             x == ss[Len(ss)]
             n == Cardinality({i \in 1..Len(rest) : rest[i].division_no <= x.division_no})
         IN SubSeq(rest, 1, n) \o <<x>> \o SubSeq(rest, n + 1, Len(rest))

RECURSIVE ConcatImages(_)
ConcatImages(ss) ==
    IF ss = <<>> THEN <<>> ELSE ss[1].image \o ConcatImages(Tail(ss))

\* Result ingestion that creates the job of a slice it does not know.
IngestOrCreate(table, slice) ==
    IF slice.id \in DOMAIN table
    THEN [table EXCEPT ![slice.id].slices = Append(@, slice)]
    ELSE [j \in (DOMAIN table) \cup {slice.id} |->
            IF j = slice.id
            THEN [width |-> ImageWidth, height |-> ImageHeight, divisions |-> 2,
                  slices |-> <<slice>>]
            ELSE table[j]]

\* Result ingestion that rejects a slice whose division is already present.
IngestDedup(table, slice) ==
    IF slice.id \in DOMAIN table
          /\ \A i \in 1..Len(table[slice.id].slices) :
                table[slice.id].slices[i].division_no # slice.division_no
    THEN [table EXCEPT ![slice.id].slices = Append(@, slice)]
    ELSE table

\* Result ingestion: append to the job's slices if the job exists, else drop.
Ingest(table, slice) ==
    IF slice.id \in DOMAIN table
    THEN [table EXCEPT ![slice.id].slices = Append(@, slice)]
    ELSE table

\* The slices a result posting can carry; the pixel bytes differ per posting.
PostedSlices ==
    [id : 0..MaxTableJobs, division_no : 0..2, image : {<<Px(tlast.seq)>>}]

TInit ==
    /\ jobs = <<>>
    /\ tnext = 0
    /\ tlast = [op |-> "none", id |-> NilUuid, answer |-> EmptyString, seq |-> 0]

\* Submit: mint the job id, fix the division count, create the job.
TSubmit(d) ==
    /\ tnext < MaxTableJobs
    /\ tnext' = tnext + 1
    /\ jobs' = [j \in (DOMAIN jobs) \cup {tnext + 1} |->
                 IF j = tnext + 1
                 THEN [width |-> ImageWidth, height |-> ImageHeight, divisions |-> d,
                       slices |-> <<>>]
                 ELSE jobs[j]]
    /\ tlast' = [tlast EXCEPT !.op = "submit", !.id = tnext + 1,
                               !.answer = UuidToString(tnext + 1)]
    /\ UNCHANGED <<cvars, svars, gvars>>

\* POST /result with an ImageSlice.
TResult(slice) ==
    /\ tlast.seq < MaxPosts
    /\ jobs' = Ingest(jobs, slice)
    /\ tlast' = [op |-> "result", id |-> slice.id, answer |-> ResultAck,
                 seq |-> tlast.seq + 1]
    /\ UNCHANGED <<tnext, cvars, svars, gvars>>

\* POST /poll with the text of a job id.
TPoll(path) ==
    /\ LET id == ParseUuid(path)
       IN IF id = -1
          THEN /\ tlast' = [tlast EXCEPT !.op = "poll", !.id = id, !.answer = InvalidId]
               /\ UNCHANGED jobs
          ELSE IF id \notin DOMAIN jobs
          THEN /\ tlast' = [tlast EXCEPT !.op = "poll", !.id = id, !.answer = NoSuchJob]
               /\ UNCHANGED jobs
          ELSE IF Len(jobs[id].slices) = jobs[id].divisions
          THEN /\ tlast' = [tlast EXCEPT !.op = "poll", !.id = id, !.answer =
                              EncodeImage(ConcatImages(SortByDivision(jobs[id].slices)))]
               /\ jobs' = [j \in (DOMAIN jobs) \ {id} |-> jobs[j]]
          ELSE /\ tlast' = [tlast EXCEPT !.op = "poll", !.id = id, !.answer =
                              NotFinished(Len(jobs[id].slices), jobs[id].divisions)]
               /\ UNCHANGED jobs
    /\ UNCHANGED <<tnext, cvars, svars, gvars>>

TablePaths == {UuidToString(u) : u \in 0..MaxTableJobs} \cup {MalformedId}

TNext ==
    \/ \E d \in TableDivisions : TSubmit(d)
    \/ \E slice \in PostedSlices : TResult(slice)
    \/ \E path \in TablePaths : TPoll(path)

\* ---------------------------------------------------------- tiled renderer
\* render (src/main.rs) and the slave's worker fill img_buff with one task per
\* row: par_chunks_exact_mut(width * 3).enumerate(), each task writing the
\* pixels of its chunk from left to right. Tasks run in any interleaving.
\* A byte of the buffer: 0u8, or channel c of the colour of pixel (x, y).
ZeroByte == [zero |-> TRUE]

\* pix_color.as_slice()[c] of the pixel at column x of scanline y.
PixByte(x, y, c) == [x |-> x, y |-> y, c |-> c]

\* A chunking that forgets the row stride.
ChunkStartNoStride(row, width) == row * 3

\* Start of chunk number row of par_chunks_exact_mut(width * 3).
ChunkStart(row, width) == row * (width * 3)

\* let y = image_height as usize - y - 1
Scanline(row, height) == height - row - 1

\* vec![0u8; image_width * image_height * 3], no row task started.
RInitAt(w, h) ==
    /\ rsize = [width |-> w, height |-> h]
    /\ render_buff = [i \in 1..(w * h * 3) |-> ZeroByte]
    /\ rprog = [row \in 0..(h - 1) |-> 0]

\* The task of chunk row writes its next pixel: [p[0], p[1], p[2]] = ...
RowStep(row) ==
    /\ row \in DOMAIN rprog
    /\ rprog[row] < rsize.width
    /\ LET x == rprog[row]
           at == ChunkStart(row, rsize.width) + x * 3
       IN render_buff' = [i \in DOMAIN render_buff |->
                    IF i - 1 \in at..(at + 2)
                    THEN PixByte(x, Scanline(row, rsize.height), i - 1 - at)
                    ELSE render_buff[i]]
    /\ rprog' = [rprog EXCEPT ![row] = @ + 1]
    /\ UNCHANGED rsize
    /\ UNCHANGED <<cvars, svars, tvars, kvars, bvars>>

RNext == \E row \in 0..(MaxRenderHeight - 1) : RowStep(row)

\* -------------------------------------------------------- numbers, vectors
\* An f32 is modelled without rounding: a fraction n/d in lowest terms with
\* d > 0, or one of 1/0 (+inf), -1/0 (-inf), 0/0 (NaN). Zero has no sign.
RECURSIVE Gcd(_, _)
Gcd(a, b) == IF b = 0 THEN a ELSE Gcd(b, a % b)

Abs(i) == IF i < 0 THEN -i ELSE i

Sgn(i) == IF i < 0 THEN -1 ELSE IF i > 0 THEN 1 ELSE 0

\* The f32 of the fraction n/d (d may be negative or 0).
Frac(n, d) ==
    IF d = 0 THEN [n |-> Sgn(n), d |-> 0]
    ELSE LET g == Gcd(Abs(n), Abs(d))
         IN [n |-> (Sgn(d) * n) \div g, d |-> Abs(d) \div g]

F(i) == Frac(i, 1)

INFINITY == Frac(1, 0)

NAN == Frac(0, 0)

IsNan(a) == a.n = 0 /\ a.d = 0

IsFinite(a) == a.d # 0

FNeg(a) == [n |-> -a.n, d |-> a.d]

\* a + b, over the least common denominator.
FAdd(a, b) ==
    IF a.d = 0 /\ b.d = 0
    THEN (IF a.n = b.n THEN a ELSE NAN)
    ELSE IF a.d = 0 THEN a
    ELSE IF b.d = 0 THEN b
    ELSE LET g == Gcd(a.d, b.d)
         IN Frac(a.n * (b.d \div g) + b.n * (a.d \div g), (a.d \div g) * b.d)

FSub(a, b) == FAdd(a, FNeg(b))

\* a * b, cancelling across before multiplying.
FMul(a, b) ==
    IF a.d = 0 \/ b.d = 0 THEN Frac(a.n * b.n, 0)
    ELSE LET g1 == Gcd(Abs(a.n), b.d)
             g2 == Gcd(Abs(b.n), a.d)
         IN Frac((a.n \div g1) * (b.n \div g2), (a.d \div g2) * (b.d \div g1))

\* 1.0 / a
FRecip(a) == IF a.n = 0 /\ a.d # 0 THEN INFINITY ELSE Frac(a.d * Sgn(a.n), Abs(a.n))

FDiv(a, b) == FMul(a, FRecip(b))

\* a < b; false when either is NaN.
FLt(a, b) ==
    /\ ~IsNan(a)
    /\ ~IsNan(b)
    /\ IF a.d = 0 \/ b.d = 0
       THEN (IF a.d = 0 /\ b.d = 0 THEN a.n < b.n
             ELSE IF a.d = 0 THEN a.n < 0 ELSE b.n > 0)
       ELSE LET g == Gcd(a.d, b.d)
            IN a.n * (b.d \div g) < b.n * (a.d \div g)

FGt(a, b) == FLt(b, a)

FEq(a, b) == ~IsNan(a) /\ ~IsNan(b) /\ a = b

FLe(a, b) == FLt(a, b) \/ FEq(a, b)

FGe(a, b) == FLe(b, a)

\* f32::min and f32::max: the other operand when one is NaN.
F32Min(a, b) == IF IsNan(a) THEN b ELSE IF IsNan(b) THEN a ELSE IF FLt(b, a) THEN b ELSE a

F32Max(a, b) == IF IsNan(a) THEN b ELSE IF IsNan(b) THEN a ELSE IF FGt(b, a) THEN b ELSE a

RECURSIVE RootIn(_, _, _)
\* The least r in lo..hi with r * r >= i, by bisection.
RootIn(i, lo, hi) ==
    IF lo >= hi THEN lo
    ELSE LET mid == (lo + hi) \div 2
         IN IF mid * mid >= i THEN RootIn(i, lo, mid) ELSE RootIn(i, mid + 1, hi)

\* The least r with r * r >= i: the square root of a perfect square.
ISqrt(i) == RootIn(i, 0, IF i < 46340 THEN i ELSE 46340)

IsSquare(i) == ISqrt(i) * ISqrt(i) = i

\* f32::sqrt, where the root is rational (the inputs of the model are
\* chosen so); sqrt(+inf) = +inf, sqrt of NaN or of a negative is NaN.
FSqrt(a) ==
    IF IsNan(a) \/ a.n < 0 THEN NAN
    ELSE IF a.d = 0 THEN INFINITY
    ELSE Frac(ISqrt(a.n), ISqrt(a.d))

HasRoot(a) == a.d # 0 /\ a.n >= 0 /\ IsSquare(a.n) /\ IsSquare(a.d)

\* Vec3 / Vec3A / Point3 / Vector3
Vec(x, y, z) == [x |-> x, y |-> y, z |-> z]

\* A vector of whole numbers.
IVec(x, y, z) == Vec(F(x), F(y), F(z))

VZero == IVec(0, 0, 0)

VAdd(a, b) == Vec(FAdd(a.x, b.x), FAdd(a.y, b.y), FAdd(a.z, b.z))

VSub(a, b) == Vec(FSub(a.x, b.x), FSub(a.y, b.y), FSub(a.z, b.z))

VNeg(a) == Vec(FNeg(a.x), FNeg(a.y), FNeg(a.z))

\* t * a
VScale(t, a) == Vec(FMul(t, a.x), FMul(t, a.y), FMul(t, a.z))

\* a / t
VDivS(a, t) == Vec(FDiv(a.x, t), FDiv(a.y, t), FDiv(a.z, t))

Dot(a, b) == FAdd(FAdd(FMul(a.x, b.x), FMul(a.y, b.y)), FMul(a.z, b.z))

Cross(a, b) ==
    Vec(FSub(FMul(a.y, b.z), FMul(b.y, a.z)),
        FSub(FMul(a.z, b.x), FMul(b.z, a.x)),
        FSub(FMul(a.x, b.y), FMul(b.x, a.y)))

VLength(a) == FSqrt(Dot(a, a))

\* normalize: a * (1.0 / length); NaN components for the zero vector.
Normalize(a) == VScale(FRecip(VLength(a)), a)

\* normalize_or_zero: zero when the reciprocal length is not finite or not > 0.
NormalizeOrZero(a) ==
    LET rcp == FRecip(VLength(a))
    IN IF IsFinite(rcp) /\ FGt(rcp, F(0)) THEN VScale(rcp, a) ELSE VZero

VFinite(a) == IsFinite(a.x) /\ IsFinite(a.y) /\ IsFinite(a.z)

\* The vectors whose length the model can compute.
HasLength(a) == VFinite(a) /\ HasRoot(Dot(a, a))

\* ----------------------------------------------------------------- camera
\* An angle is kept by the tangent of its half (rational for the angles used).
Angle(halftan) == [halftan |-> halftan]

\* (field_of_view / 2f32).tan()
TanHalf(field_of_view) == field_of_view.halftan

\* PI / 2f32
HalfPi == Angle(F(1))

\* Camera::new
CameraNew(origin, aspect_ratio, aperture, focus_distance, field_of_view, focal_length, image_height) ==
    LET vh == FMul(F(2), TanHalf(field_of_view))
        vw == FMul(aspect_ratio, vh)
        horizontal == Vec(vw, F(0), F(0))
        vertical == Vec(F(0), vh, F(0))
    IN [origin |-> origin,
        horizontal |-> horizontal,
        focus_distance |-> focus_distance,
        image_height |-> image_height,
        field_of_view |-> field_of_view,
        focal_length |-> focal_length,
        aspect_ratio |-> aspect_ratio,
        vertical |-> vertical,
        aperture |-> aperture,
        lower_left_corner |->
            VSub(VSub(VSub(origin, VDivS(horizontal, F(2))), VDivS(vertical, F(2))),
                 Vec(F(0), F(0), focal_length))]

set_field_of_view(self, field_of_view) ==
    CameraNew(self.origin, self.aspect_ratio, self.aperture, self.focus_distance,
              field_of_view, self.focal_length, self.image_height)

set_focal_length(self, focal_length) ==
    CameraNew(self.origin, self.aspect_ratio, self.aperture, self.focus_distance,
              self.field_of_view, focal_length, self.image_height)

\* A setter that stores the new origin and leaves the derived fields alone.
set_origin_only(self, origin) == [self EXCEPT !.origin = origin]

set_origin(self, origin) ==
    CameraNew(origin, self.aspect_ratio, self.aperture, self.focus_distance,
              self.field_of_view, self.focal_length, self.image_height)

set_focus_distance(self, focus_distance) ==
    CameraNew(self.origin, self.aspect_ratio, self.aperture, focus_distance,
              self.field_of_view, self.focal_length, self.image_height)

set_aperture(self, aperture) ==
    CameraNew(self.origin, self.aspect_ratio, aperture, self.focus_distance,
              self.field_of_view, self.focal_length, self.image_height)

\* Ray::at
RayAt(ray, t) == VAdd(ray.origin, VScale(t, ray.direction))

\* The locals of get_ray for pixel (x, y), the UnitDisc sample disc and the
\* two gen_range(0..1) samples rx, ry.
LensOffset(self, disc) ==
    LET lens_radius == FDiv(self.aperture, F(2))
    IN Vec(FMul(disc[1], lens_radius), FMul(disc[2], lens_radius), F(0))

ViewU(self, x, rx) ==
    FDiv(FAdd(F(x), rx), FSub(FMul(self.aspect_ratio, self.image_height), F(1)))

ViewV(self, y, ry) == FDiv(FAdd(F(y), ry), FSub(self.image_height, F(1)))

\* lower_left_corner + u * horizontal + v * vertical - origin
PrimaryDirection(self, u, v) ==
    VSub(VAdd(VAdd(self.lower_left_corner, VScale(u, self.horizontal)),
              VScale(v, self.vertical)),
         self.origin)

FocalPoint(self, u, v) ==
    RayAt([origin |-> self.origin,
           direction |-> NormalizeOrZero(PrimaryDirection(self, u, v))],
          self.focus_distance)

\* Camera::get_ray
get_ray(self, x, y, disc, rx, ry) ==
    LET offset == LensOffset(self, disc)
        focal_point == FocalPoint(self, ViewU(self, x, rx), ViewV(self, y, ry))
    IN [origin |-> self.origin,
        direction |-> NormalizeOrZero(VSub(VSub(focal_point, self.origin), offset))]

\* The camera render makes, Camera::new(Point3::ZERO, aspect_ratio, 0.1, 1,
\* PI / 2, 1, image_height), for a small image of aspect ratio 2.
RenderCamera ==
    CameraNew(VZero, F(2), Frac(1, 10), F(1), HalfPi, F(1), F(CameraImageHeight))

NoShot ==
    [taken |-> FALSE, offset |-> VZero, focal_point |-> VZero,
     ray |-> [origin |-> VZero, direction |-> VZero]]

KInit ==
    /\ camera = RenderCamera
    /\ shot = NoShot

\* The values the GUI sends to the setters.
Origins == {VZero, IVec(1, 0, 0), IVec(0, -2, MaxCoord)}

FieldsOfView == {HalfPi, Angle(Frac(1, 2)), Angle(F(2))}

FocalLengths == {F(1), F(2)}

FocusDistances == {F(1), F(2)}

Apertures == {Frac(1, 10), F(0), Frac(3, 2), F(3)}

UpdateCameraOrigin(origin) ==
    /\ camera' = set_origin(camera, origin)
    /\ shot' = NoShot
    /\ UNCHANGED <<cvars, svars, tvars, rvars, bvars>>

UpdateCameraFieldOfView(field_of_view) ==
    /\ camera' = set_field_of_view(camera, field_of_view)
    /\ shot' = NoShot
    /\ UNCHANGED <<cvars, svars, tvars, rvars, bvars>>

UpdateCameraAperture(aperture) ==
    /\ camera' = set_aperture(camera, aperture)
    /\ shot' = NoShot
    /\ UNCHANGED <<cvars, svars, tvars, rvars, bvars>>

UpdateCameraFocalLength(focal_length) ==
    /\ camera' = set_focal_length(camera, focal_length)
    /\ shot' = NoShot
    /\ UNCHANGED <<cvars, svars, tvars, rvars, bvars>>

UpdateCameraFocusDistance(focus_distance) ==
    /\ camera' = set_focus_distance(camera, focus_distance)
    /\ shot' = NoShot
    /\ UNCHANGED <<cvars, svars, tvars, rvars, bvars>>

\* Samples of UnitDisc and of gen_range(0f32..1f32).
DiscSamples == {<<F(0), F(0)>>, <<F(1), F(0)>>}

UnitSamples == {F(0), Frac(1, 2)}

\* Pixels get_ray is called for: the first column and row, and the middle
\* ones.
PixelColumns == {0, CameraImageHeight - 1}

PixelRows == {0, (CameraImageHeight - 1) \div 2}

\* render calls camera.get_ray(x, y, rng) and uses the ray it returns: shot
\* holds that ray, with the camera it was taken by and the locals of the
\* call, until the next message moves the camera. The samples are those for
\* which the two normalisations have a rational length.
GetRay(x, y, disc, rx, ry) ==
    LET u == ViewU(camera, x, rx)
        v == ViewV(camera, y, ry)
        offset == LensOffset(camera, disc)
        focal_point == FocalPoint(camera, u, v)
    IN /\ HasLength(PrimaryDirection(camera, u, v))
       /\ HasLength(VSub(VSub(focal_point, camera.origin), offset))
       /\ shot' = [taken |-> TRUE,
                   offset |-> offset,
                   focal_point |-> focal_point,
                   ray |-> get_ray(camera, x, y, disc, rx, ry)]
       /\ UNCHANGED camera
       /\ UNCHANGED <<cvars, svars, tvars, rvars, bvars>>

KNext ==
    \/ \E origin \in Origins : UpdateCameraOrigin(origin)
    \/ \E field_of_view \in FieldsOfView : UpdateCameraFieldOfView(field_of_view)
    \/ \E aperture \in Apertures : UpdateCameraAperture(aperture)
    \/ \E focal_length \in FocalLengths : UpdateCameraFocalLength(focal_length)
    \/ \E focus_distance \in FocusDistances : UpdateCameraFocusDistance(focus_distance)
    \/ \E x \in PixelColumns, y \in PixelRows, disc \in DiscSamples,
          rx \in UnitSamples, ry \in UnitSamples : GetRay(x, y, disc, rx, ry)

\* ------------------------------------------------------ rays and boxes
\* bvh::aabb::AABB: the two corners min and max.
AabbWithBounds(lo, hi) == [min |-> lo, max |-> hi]

\* AABB::empty(): min = +inf, max = -inf on every axis.
AabbEmpty ==
    AabbWithBounds(Vec(INFINITY, INFINITY, INFINITY),
                   Vec(FNeg(INFINITY), FNeg(INFINITY), FNeg(INFINITY)))

\* AABB::grow(&p): the box that also holds p.
AabbGrow(aabb, p) ==
    AabbWithBounds(Vec(F32Min(aabb.min.x, p.x), F32Min(aabb.min.y, p.y),
                       F32Min(aabb.min.z, p.z)),
                   Vec(F32Max(aabb.max.x, p.x), F32Max(aabb.max.y, p.y),
                       F32Max(aabb.max.z, p.z)))

\* AABB::center(): min + size / 2.
AabbCenter(aabb) == VAdd(aabb.min, VDivS(VSub(aabb.max, aabb.min), F(2)))

\* aabb[i]: min for index 0, max for index 1.
AabbIndex(aabb, i) == IF i = 0 THEN aabb.min ELSE aabb.max

\* fn min(x, y): if x < y { x } else { y }, so y when either is NaN.
min(x, y) == IF FLt(x, y) THEN x ELSE y

\* fn max(x, y): if x > y { x } else { y }.
max(x, y) == IF FGt(x, y) THEN x ELSE y

\* (direction < 0.0) as usize
SignOf(a) == IF FLt(a, F(0)) THEN 1 ELSE 0

\* Ray::new(origin, direction): the direction is normalized.
RayNew(origin, direction) ==
    LET d == Normalize(direction)
    IN [origin |-> origin,
        direction |-> d,
        inv_direction |-> Vec(FRecip(d.x), FRecip(d.y), FRecip(d.z)),
        sign_x |-> SignOf(d.x),
        sign_y |-> SignOf(d.y),
        sign_z |-> SignOf(d.z)]

\* Ray::intersects_aabb: the slab test indexed by the direction's signs.
intersects_aabb(self, aabb) ==
    LET x_min == FMul(FSub(AabbIndex(aabb, self.sign_x).x, self.origin.x),
                      self.inv_direction.x)
        x_max == FMul(FSub(AabbIndex(aabb, 1 - self.sign_x).x, self.origin.x),
                      self.inv_direction.x)
        y_min == FMul(FSub(AabbIndex(aabb, self.sign_y).y, self.origin.y),
                      self.inv_direction.y)
        y_max == FMul(FSub(AabbIndex(aabb, 1 - self.sign_y).y, self.origin.y),
                      self.inv_direction.y)
        z_min == FMul(FSub(AabbIndex(aabb, self.sign_z).z, self.origin.z),
                      self.inv_direction.z)
        z_max == FMul(FSub(AabbIndex(aabb, 1 - self.sign_z).z, self.origin.z),
                      self.inv_direction.z)
        ray_min == max(max(x_min, y_min), z_min)
        ray_max == min(min(x_max, y_max), z_max)
    IN FLe(max(ray_min, F(0)), ray_max)

\* Ray::intersects_aabb_naive: entry and exit per axis with f32::min and
\* f32::max, then latest_entry < earliest_exit && earliest_exit > 0.0.
intersects_aabb_naive(self, aabb) ==
    LET hit_min_x == FMul(FSub(aabb.min.x, self.origin.x), self.inv_direction.x)
        hit_max_x == FMul(FSub(aabb.max.x, self.origin.x), self.inv_direction.x)
        hit_min_y == FMul(FSub(aabb.min.y, self.origin.y), self.inv_direction.y)
        hit_max_y == FMul(FSub(aabb.max.y, self.origin.y), self.inv_direction.y)
        hit_min_z == FMul(FSub(aabb.min.z, self.origin.z), self.inv_direction.z)
        hit_max_z == FMul(FSub(aabb.max.z, self.origin.z), self.inv_direction.z)
        x_entry == F32Min(hit_min_x, hit_max_x)
        y_entry == F32Min(hit_min_y, hit_max_y)
        z_entry == F32Min(hit_min_z, hit_max_z)
        x_exit == F32Max(hit_min_x, hit_max_x)
        y_exit == F32Max(hit_min_y, hit_max_y)
        z_exit == F32Max(hit_min_z, hit_max_z)
        latest_entry == F32Max(F32Max(x_entry, y_entry), z_entry)
        earliest_exit == F32Min(F32Min(x_exit, y_exit), z_exit)
    IN FLt(latest_entry, earliest_exit) /\ FGt(earliest_exit, F(0))

\* One axis of intersects_aabb_branchless: the new <<tmin, tmax>>.
BranchlessAxis(t1, t2, t) ==
    <<min(max(t1, t[1]), max(t2, t[1])), max(min(t1, t[2]), min(t2, t[2]))>>

\* Ray::intersects_aabb_branchless
intersects_aabb_branchless(self, aabb) ==
    LET tx == BranchlessAxis(
                  FMul(FSub(aabb.min.x, self.origin.x), self.inv_direction.x),
                  FMul(FSub(aabb.max.x, self.origin.x), self.inv_direction.x),
                  <<F(0), INFINITY>>)
        ty == BranchlessAxis(
                  FMul(FSub(aabb.min.y, self.origin.y), self.inv_direction.y),
                  FMul(FSub(aabb.max.y, self.origin.y), self.inv_direction.y),
                  tx)
        tz == BranchlessAxis(
                  FMul(FSub(aabb.min.z, self.origin.z), self.inv_direction.z),
                  FMul(FSub(aabb.max.z, self.origin.z), self.inv_direction.z),
                  ty)
    IN FLe(tz[1], tz[2])

\* Corner points a box is grown from, and the points rays start at.
Corners == {IVec(x, y, z) : x \in {0, 2}, y \in {0, 2}, z \in {0, 2}}

Positions ==
    {IVec(x, y, z) : x \in (-MaxCoord)..MaxCoord, y \in (-MaxCoord)..MaxCoord,
                     z \in (-MaxCoord)..MaxCoord}

\* Directions of rational length, before normalization.
Directions ==
    {IVec(1, 2, 2), IVec(-1, -2, -2), IVec(2, -1, 2), IVec(-2, 2, -1),
     IVec(2, 3, 6), IVec(1, 0, 0), IVec(0, 0, -1), IVec(0, 3, 4)}

RayOrigins ==
    {IVec(0, 0, 0), IVec(2, 2, 2), IVec(1, 1, 1), IVec(-1, -2, -2),
     IVec(0, 1, -MaxCoord), IVec(MaxCoord, 0, 1)}

\* gen_ray_to_aabb(data): a box grown from two points and a ray from pos
\* aimed at its center.
gen_ray_to_aabb(p0, p1, pos) ==
    LET aabb == AabbGrow(AabbGrow(AabbEmpty, p0), p1)
        center == AabbCenter(aabb)
    IN [made_by |-> "gen_ray_to_aabb",
        ray |-> RayNew(pos, VSub(center, pos)),
        aabb |-> aabb]

\* random_ray and random_aabb: any ray and any box.
random_ray_and_box(origin, direction, p0, p1) ==
    [made_by |-> "random_ray",
     ray |-> RayNew(origin, direction),
     aabb |-> AabbGrow(AabbGrow(AabbEmpty, p0), p1)]

NoProbe == [made_by |-> "none"]

NoResult == [done |-> FALSE]

AabbTests == {"intersects_aabb", "intersects_aabb_naive", "intersects_aabb_branchless"}

NoVerdict == [t \in {} |-> NoResult]

\* No ray or box under test.
BInit ==
    /\ probe = NoProbe
    /\ verdict = NoVerdict

\* A ray and a box drawn by one of the generators, no test run yet.
BInitAabb ==
    /\ \/ \E p0 \in Corners, p1 \in Corners, pos \in Positions :
             /\ HasLength(VSub(AabbCenter(AabbGrow(AabbGrow(AabbEmpty, p0), p1)), pos))
             /\ probe = gen_ray_to_aabb(p0, p1, pos)
       \/ \E origin \in RayOrigins, direction \in Directions,
             p0 \in Corners, p1 \in Corners :
             probe = random_ray_and_box(origin, direction, p0, p1)
    /\ verdict = [t \in AabbTests |-> NoResult]

BoolResult(hit) == [done |-> TRUE, hit |-> hit]

\* assert!(ray.intersects_aabb(&aabb))
IntersectsAabb ==
    /\ "intersects_aabb" \in DOMAIN verdict
    /\ ~verdict["intersects_aabb"].done
    /\ verdict' = [verdict EXCEPT !["intersects_aabb"] =
                       BoolResult(intersects_aabb(probe.ray, probe.aabb))]
    /\ UNCHANGED probe
    /\ UNCHANGED <<cvars, svars, tvars, rvars, kvars>>

\* assert!(ray.intersects_aabb_naive(&aabb))
IntersectsAabbNaive ==
    /\ "intersects_aabb_naive" \in DOMAIN verdict
    /\ ~verdict["intersects_aabb_naive"].done
    /\ verdict' = [verdict EXCEPT !["intersects_aabb_naive"] =
                       BoolResult(intersects_aabb_naive(probe.ray, probe.aabb))]
    /\ UNCHANGED probe
    /\ UNCHANGED <<cvars, svars, tvars, rvars, kvars>>

\* assert!(ray.intersects_aabb_branchless(&aabb))
IntersectsAabbBranchless ==
    /\ "intersects_aabb_branchless" \in DOMAIN verdict
    /\ ~verdict["intersects_aabb_branchless"].done
    /\ verdict' = [verdict EXCEPT !["intersects_aabb_branchless"] =
                       BoolResult(intersects_aabb_branchless(probe.ray, probe.aabb))]
    /\ UNCHANGED probe
    /\ UNCHANGED <<cvars, svars, tvars, rvars, kvars>>

BNext ==
    \/ IntersectsAabb
    \/ IntersectsAabbNaive
    \/ IntersectsAabbBranchless

\* ------------------------------------------------------------ triangles
\* const EPSILON: f32 = 0.00001
EPSILON == Frac(1, 100000)

\* Intersection::new(distance, u, v)
IntersectionNew(distance, u, v) == [distance |-> distance, u |-> u, v |-> v]

\* (0.0..=1.0).contains(&u)
InUnitRange(u) == FLe(F(0), u) /\ FLe(u, F(1))

\* Ray::intersects_triangle: Moeller-Trumbore, the distance +inf when the ray
\* misses the triangle or det < EPSILON.
intersects_triangle(self, a, b, c) ==
    LET a_to_b == VSub(b, a)
        a_to_c == VSub(c, a)
        u_vec == Cross(self.direction, a_to_c)
        det == Dot(a_to_b, u_vec)
        inv_det == FRecip(det)
        a_to_origin == VSub(self.origin, a)
        u == FMul(Dot(a_to_origin, u_vec), inv_det)
        v_vec == Cross(a_to_origin, a_to_b)
        v == FMul(Dot(self.direction, v_vec), inv_det)
        dist == FMul(Dot(a_to_c, v_vec), inv_det)
    IN IF FLt(det, EPSILON) THEN IntersectionNew(INFINITY, F(0), F(0))
       ELSE IF ~InUnitRange(u) THEN IntersectionNew(INFINITY, u, F(0))
       ELSE IF FLt(v, F(0)) \/ FGt(FAdd(u, v), F(1))
            THEN IntersectionNew(INFINITY, u, v)
       ELSE IF FGt(dist, EPSILON) THEN IntersectionNew(dist, u, v)
       ELSE IntersectionNew(INFINITY, u, v)

\* Triangle::new(a, b, c, ...)
TriangleNew(a, b, c) == [shape |-> "Triangle", a |-> a, b |-> b, c |-> c]

\* Triangle::get_roots: Roots::No([]) is <<>>, Roots::One([dist]) is <<dist>>.
\* No root when det < EPSILON && det > -EPSILON.
TriangleGetRoots(self, ray) ==
    LET a_to_b == VSub(self.b, self.a)
        a_to_c == VSub(self.c, self.a)
        u_vec == Cross(ray.direction, a_to_c)
        det == Dot(a_to_b, u_vec)
        inv_det == FRecip(det)
        a_to_origin == VSub(ray.origin, self.a)
        u == FMul(Dot(a_to_origin, u_vec), inv_det)
        v_vec == Cross(a_to_origin, a_to_b)
        v == FMul(Dot(ray.direction, v_vec), inv_det)
        dist == FMul(Dot(a_to_c, v_vec), inv_det)
    IN IF FLt(det, EPSILON) /\ FGt(det, FNeg(EPSILON)) THEN <<>>
       ELSE IF ~InUnitRange(u) THEN <<>>
       ELSE IF FLt(v, F(0)) \/ FGt(FAdd(u, v), F(1)) THEN <<>>
       ELSE IF FGt(dist, EPSILON) THEN <<dist>>
       ELSE <<>>

\* Triangles under test, and barycentric coordinates with u + v <= 1 away
\* from the border.
Triangles ==
    {<<IVec(0, 0, 0), IVec(4, 0, 0), IVec(0, 4, 0)>>,
     <<IVec(0, 0, 0), IVec(0, 4, 0), IVec(4, 0, 0)>>,
     <<IVec(0, 0, 0), IVec(4, 0, 0), IVec(0, 4, 4)>>}

Barycentrics == {<<Frac(1, 4), Frac(1, 4)>>, <<Frac(1, 2), Frac(1, 4)>>}

\* test_ray_hits_triangle: a point of the triangle, a ray from origin aimed
\* at it, and the side of the triangle the origin is on.
ray_to_triangle(a, b, c, origin, u, v) ==
    LET u_vec == VSub(b, a)
        v_vec == VSub(c, a)
        normal == Cross(u_vec, v_vec)
        point_on_triangle == VAdd(VAdd(a, VScale(u, u_vec)), VScale(v, v_vec))
        ray == RayNew(origin, VSub(point_on_triangle, origin))
    IN [made_by |-> "test_ray_hits_triangle",
        triangle |-> TriangleNew(a, b, c),
        ray |-> ray,
        on_back_side |-> FLe(Dot(normal, VSub(ray.origin, a)), F(0))]

TriangleTests == {"intersects_triangle", "get_roots"}

\* A triangle and a ray aimed at it, no test run yet.
BInitTriangle ==
    /\ \E t \in Triangles, uv \in Barycentrics, origin \in Positions :
          /\ HasLength(VSub(VAdd(VAdd(t[1], VScale(uv[1], VSub(t[2], t[1]))),
                                 VScale(uv[2], VSub(t[3], t[1]))),
                            origin))
          /\ probe = ray_to_triangle(t[1], t[2], t[3], origin, uv[1], uv[2])
    /\ verdict = [t \in TriangleTests |-> NoResult]

\* ray.intersects_triangle(&triangle.0, &triangle.1, &triangle.2)
IntersectsTriangle ==
    /\ "intersects_triangle" \in DOMAIN verdict
    /\ ~verdict["intersects_triangle"].done
    /\ verdict' = [verdict EXCEPT !["intersects_triangle"] =
                       [done |-> TRUE,
                        intersects |-> intersects_triangle(probe.ray, probe.triangle.a,
                                                           probe.triangle.b,
                                                           probe.triangle.c)]]
    /\ UNCHANGED probe
    /\ UNCHANGED <<cvars, svars, tvars, rvars, kvars>>

\* triangle.get_roots(&ray)
GetRoots ==
    /\ "get_roots" \in DOMAIN verdict
    /\ ~verdict["get_roots"].done
    /\ verdict' = [verdict EXCEPT !["get_roots"] =
                       [done |-> TRUE,
                        roots |-> TriangleGetRoots(probe.triangle, probe.ray)]]
    /\ UNCHANGED probe
    /\ UNCHANGED <<cvars, svars, tvars, rvars, kvars>>

TriNext ==
    \/ IntersectsTriangle
    \/ GetRoots

\* ------------------------------------------------------- scenes and BVH
T_MIN == Frac(1, 1000)

T_MAX == F(1000)

\* Sphere::new(radius, center, ...); the material fields play no part.
SphereNew(radius, center) == [shape |-> "Sphere", radius |-> radius, center |-> center]

\* roots::find_roots_quadratic(1, b, c): no root, the double root, or the
\* two roots in increasing order.
find_roots_quadratic(b, c) ==
    LET discriminant == FSub(FMul(b, b), FMul(F(4), c))
        root == FSqrt(discriminant)
        x1 == FDiv(FSub(FNeg(b), root), F(2))
        x2 == FDiv(FAdd(FNeg(b), root), F(2))
    IN IF FLt(discriminant, F(0)) THEN <<>>
       ELSE IF discriminant = F(0) THEN <<FDiv(FNeg(b), F(2))>>
       ELSE <<x1, x2>>

\* The discriminant of Sphere::get_roots.
SphereDiscriminant(self, ray) ==
    LET b == Dot(VScale(F(2), ray.direction), VSub(ray.origin, self.center))
        length == VLength(VSub(ray.origin, self.center))
        c == FSub(FMul(length, length), FMul(self.radius, self.radius))
    IN FSub(FMul(b, b), FMul(F(4), c))

\* Sphere::get_roots
SphereGetRoots(self, ray) ==
    LET b == Dot(VScale(F(2), ray.direction), VSub(ray.origin, self.center))
        length == VLength(VSub(ray.origin, self.center))
        c == FSub(FMul(length, length), FMul(self.radius, self.radius))
    IN find_roots_quadratic(b, c)

\* Object::get_roots
ObjectGetRoots(self, ray) ==
    IF self.shape = "Triangle" THEN TriangleGetRoots(self, ray)
    ELSE SphereGetRoots(self, ray)

\* A range test that takes T_MAX as well.
InRangeClosed(x) == FLe(T_MIN, x) /\ FLe(x, T_MAX)

\* (T_MIN..T_MAX).contains(&x)
InRange(x) == FLe(T_MIN, x) /\ FLt(x, T_MAX)

NoPoint == [some |-> FALSE]

SomePoint(p) == [some |-> TRUE, point |-> p]

\* The match of get_intersection_point on the roots: the point at the least
\* root in T_MIN..T_MAX, if any.
PointAtRoots(roots, ray) ==
    IF Len(roots) = 0 THEN NoPoint
    ELSE IF Len(roots) = 1
         THEN (IF InRange(roots[1]) THEN SomePoint(RayAt(ray, roots[1])) ELSE NoPoint)
    ELSE IF InRange(roots[1]) /\ InRange(roots[2])
         THEN SomePoint(RayAt(ray, IF FLt(roots[1], roots[2]) THEN roots[1]
                                   ELSE roots[2]))
    ELSE IF InRange(roots[1]) THEN SomePoint(RayAt(ray, roots[1]))
    ELSE IF InRange(roots[2]) THEN SomePoint(RayAt(ray, roots[2]))
    ELSE NoPoint

\* Intersectable::get_intersection_point: self.get_roots(ray), computed once,
\* and the match on it.
get_intersection_point(self, ray) ==
    CHOOSE p \in {PointAtRoots(roots, ray) : roots \in {ObjectGetRoots(self, ray)}} : TRUE

\* std::cmp::min_by and max_by with partial_cmp(..).unwrap_or(Equal).
MinBy(v1, v2) == IF FGt(v1, v2) THEN v2 ELSE v1

MaxBy(v1, v2) == IF FGt(v1, v2) THEN v1 ELSE v2

\* Bounded for Triangle
TriangleAabb(self) ==
    AabbWithBounds(
        Vec(MinBy(MinBy(self.a.x, self.c.x), self.b.x),
            MinBy(MinBy(self.a.y, self.c.y), self.b.y),
            MinBy(MinBy(self.a.z, self.c.z), self.b.z)),
        Vec(MaxBy(MaxBy(self.a.x, self.c.x), self.b.x),
            MaxBy(MaxBy(self.a.y, self.c.y), self.b.y),
            MaxBy(MaxBy(self.a.z, self.c.z), self.b.z)))

\* Bounded for Sphere
SphereAabb(self) ==
    LET half_size == Vec(self.radius, self.radius, self.radius)
    IN AabbWithBounds(VSub(self.center, half_size), VAdd(self.center, half_size))

\* Bounded for Object
ObjectAabb(self) ==
    IF self.shape = "Triangle" THEN TriangleAabb(self) ELSE SphereAabb(self)

\* The box of two boxes.
AabbJoin(a, b) == AabbGrow(AabbGrow(a, b.min), b.max)

RECURSIVE JoinOf(_, _, _)
\* The box of the shapes lo..hi of world.
JoinOf(world, lo, hi) ==
    IF lo = hi THEN ObjectAabb(world[lo])
    ELSE AabbJoin(JoinOf(world, lo, hi - 1), ObjectAabb(world[hi]))

RECURSIVE BvhNodes(_, _, _)
\* BVH::build: the nodes of the tree over the shapes lo..hi: a node holds the
\* range of its shapes and their box; a range of one shape is a leaf, a longer
\* one has the two halves as children.
BvhNodes(world, lo, hi) ==
    LET node == [lo |-> lo, hi |-> hi, aabb |-> JoinOf(world, lo, hi)]
        mid == (lo + hi) \div 2
    IN IF lo = hi THEN {node}
       ELSE {node} \cup BvhNodes(world, lo, mid) \cup BvhNodes(world, mid + 1, hi)

BvhBuild(world) == BvhNodes(world, 1, Len(world))

\* The indices of the shapes of world, in order.
Indices(world) == [i \in 1..Len(world) |-> i]

\* The slab test passes on the box of every node that holds shape i.
Reached(bvh, ray, i) ==
    \A node \in bvh : (node.lo <= i /\ i <= node.hi) => intersects_aabb(ray, node.aabb)

\* BVH::traverse: the shapes of the leaves reached, in order, when every
\* subtree whose box the slab test says the ray misses is pruned.
traverse(bvh, ray, world) ==
    SelectSeq(Indices(world), LAMBDA i : Reached(bvh, ray, i))

NoTable == [some |-> FALSE]

\* The compare of min_by: e, the hit of shape i, replaces best when it is
\* nearer to the ray's origin; of two equally near the earlier stays.
Nearer(best, i, e, ray) ==
    IF ~e.some THEN best
    ELSE IF ~best.some THEN [some |-> TRUE, object |-> i, point |-> e.point]
    ELSE IF FLt(VLength(VSub(e.point, ray.origin)), VLength(VSub(best.point, ray.origin)))
         THEN [some |-> TRUE, object |-> i, point |-> e.point]
    ELSE best

RECURSIVE Nearest(_, _, _, _)
\* min_by over the hits of the shapes of list, best being the nearest so
\* far; each get_intersection_point is computed once.
Nearest(list, world, ray, best) ==
    IF Len(list) = 0 THEN best
    ELSE CHOOSE t \in {Nearest(Tail(list), world, ray, next) :
                         next \in {Nearer(best, Head(list), e, ray) :
                                     e \in {get_intersection_point(world[Head(list)], ray)}}} :
             TRUE

\* WorldRefList::intersect over the shapes of list: the nearest hit, with
\* the shape hit and the point.
intersect(list, world, ray) == Nearest(list, world, ray, NoTable)

\* The shapes of scenes and the rays traced.
Shapes ==
    {TriangleNew(IVec(0, 0, 4), IVec(0, -4, 0), IVec(4, 0, 4)),
     TriangleNew(IVec(0, 0, 0), IVec(4, 0, 0), IVec(0, 4, 4)),
     TriangleNew(IVec(0, 0, -2), IVec(4, 0, -2), IVec(0, 4, -2)),
     SphereNew(F(1), IVec(1, 1, -3)),
     SphereNew(F(2), IVec(-3, 4, 2))}

Scenes == UNION {[1..n -> Shapes] : n \in 1..MaxShapes}

TraceRays ==
    {<<IVec(1, 1, 3), IVec(0, 0, -1)>>,
     <<IVec(1, 1, 3), IVec(0, 0, 1)>>,
     <<IVec(-3, 0, 4), IVec(3, 4, 0)>>,
     <<IVec(1, -3, 4), IVec(0, 1, 0)>>,
     <<IVec(1, 1, -6), IVec(0, 0, 1)>>,
     <<IVec(0, 0, 1), IVec(1, 2, -2)>>}

\* The rays whose roots on every sphere of world the model can compute.
Computable(world, ray) ==
    \A i \in 1..Len(world) :
        world[i].shape = "Sphere" =>
            /\ HasLength(VSub(ray.origin, world[i].center))
            /\ \/ FLt(SphereDiscriminant(world[i], ray), F(0))
               \/ HasRoot(SphereDiscriminant(world[i], ray))

TraceTests == {"traverse", "intersect", "to_ref_intersect"}

\* worker has built the BVH of the request's world; ray_color is given a ray.
BInitTrace ==
    /\ \E world \in Scenes, r \in TraceRays :
          /\ Computable(world, RayNew(r[1], r[2]))
          /\ probe = [made_by |-> "ray_color",
                      world |-> world,
                      bvh |-> BvhBuild(world),
                      ray |-> RayNew(r[1], r[2])]
    /\ verdict = [t \in TraceTests |-> NoResult]

\* let world_sub = bvh.traverse(ray, &v)
Traverse ==
    /\ "traverse" \in DOMAIN verdict
    /\ ~verdict["traverse"].done
    /\ verdict' = [verdict EXCEPT !["traverse"] =
                       [done |-> TRUE,
                        world_sub |-> traverse(probe.bvh, probe.ray, probe.world)]]
    /\ UNCHANGED probe
    /\ UNCHANGED <<cvars, svars, tvars, rvars, kvars>>

\* WorldRefList::from_vec(world_sub).intersect(&ray)
Intersect ==
    /\ "intersect" \in DOMAIN verdict
    /\ ~verdict["intersect"].done
    /\ verdict["traverse"].done
    /\ verdict' = [verdict EXCEPT !["intersect"] =
                       [done |-> TRUE,
                        table |-> intersect(verdict["traverse"].world_sub, probe.world,
                                            probe.ray)]]
    /\ UNCHANGED probe
    /\ UNCHANGED <<cvars, svars, tvars, rvars, kvars>>

\* world.to_ref().intersect(&ray): the test of every shape of the scene.
ToRefIntersect ==
    /\ "to_ref_intersect" \in DOMAIN verdict
    /\ ~verdict["to_ref_intersect"].done
    /\ verdict' = [verdict EXCEPT !["to_ref_intersect"] =
                       [done |-> TRUE,
                        table |-> intersect(Indices(probe.world), probe.world, probe.ray)]]
    /\ UNCHANGED probe
    /\ UNCHANGED <<cvars, svars, tvars, rvars, kvars>>

TraceNext ==
    \/ Traverse
    \/ Intersect
    \/ ToRefIntersect

GInit ==
    /\ RInitAt(1, 1)
    /\ KInit
    /\ BInit

Init ==
    /\ CInit
    /\ SInitAt([width |-> ImageWidth, height |-> ImageHeight, divisions |-> ImageDivisions])
    /\ TInit
    /\ GInit

Next == CNext

\* The controller: handlers, worker thread and the requests to the slaves.
Spec == Init /\ [][Next]_vars

SlaveInit ==
    /\ CInit
    /\ \E frame \in Frames : SInitAt(frame)
    /\ TInit
    /\ GInit

SlaveNext == SNext

\* One slave, sent the divisions of frames of a size drawn at the start.
SpecSlave == SlaveInit /\ [][SlaveNext]_vars

TableNext == TNext

\* The coordinator's job table under submit, result and poll requests.
SpecTable == Init /\ [][TableNext]_vars

RenderInit ==
    /\ CInit
    /\ SInitAt([width |-> ImageWidth, height |-> ImageHeight, divisions |-> ImageDivisions])
    /\ TInit
    /\ \E w \in 1..MaxRenderWidth, h \in 1..MaxRenderHeight : RInitAt(w, h)
    /\ KInit
    /\ BInit

RenderNext == RNext

\* The row tasks of one render of an image of a size drawn at the start.
SpecRender == RenderInit /\ [][RenderNext]_vars

CameraNext == KNext

\* The camera of render under the GUI's updates and get_ray calls.
SpecCamera == Init /\ [][CameraNext]_vars

AabbInit ==
    /\ CInit
    /\ SInitAt([width |-> ImageWidth, height |-> ImageHeight, divisions |-> ImageDivisions])
    /\ TInit
    /\ RInitAt(1, 1)
    /\ KInit
    /\ BInitAabb

AabbNext == BNext

\* The three ray/box tests run on a ray and a box drawn at the start.
SpecAabb == AabbInit /\ [][AabbNext]_vars

TriangleInit ==
    /\ CInit
    /\ SInitAt([width |-> ImageWidth, height |-> ImageHeight, divisions |-> ImageDivisions])
    /\ TInit
    /\ RInitAt(1, 1)
    /\ KInit
    /\ BInitTriangle

TriangleNext == TriNext

\* The two triangle tests run on a triangle and a ray drawn at the start.
SpecTriangle == TriangleInit /\ [][TriangleNext]_vars

TraceInit ==
    /\ CInit
    /\ SInitAt([width |-> ImageWidth, height |-> ImageHeight, divisions |-> ImageDivisions])
    /\ TInit
    /\ RInitAt(1, 1)
    /\ KInit
    /\ BInitTrace

\* ray_color's search for the nearest hit of a ray in a scene drawn at the start.
SpecTrace == TraceInit /\ [][TraceNext]_vars

\* ================================================================ claims

\* A poll is answered in this step.
PollAnswers == lastAnswer'.kind = "poll"

\* The poll request r is answered in this step with the worker's next Output.
PollAnswersOutput(r) ==
    /\ BagIn(r, inflight)
    /\ r.kind = "poll"
    /\ r.pc = "recv"
    /\ inflight' = Take(r)
    /\ chanS # <<>>

IsImage(resp) == Len(resp) > 2 /\ resp = Json(SubSeq(resp, 2, Len(resp) - 1))

\* The frame the controller asks the slaves to render.
JobMeta == from_image_divisions(ImageWidth, ImageHeight, ImageDivisions, NilUuid)

RECURSIVE SlicesInOrder(_, _)
\* The pixel bytes of the slices of divisions 0..n-1 of a frame, in that order.
SlicesInOrder(meta, n) ==
    IF n = 0 THEN <<>>
    ELSE SlicesInOrder(meta, n - 1)
            \o RenderRows([render_meta |-> meta, division_no |-> n - 1])

\* C1: a poll that returns an image returns the pixel bytes of the job's D
\* slices concatenated in increasing division-index order.
C1_PollReturnsSlicesInOrder ==
    [][\A r \in BagToSet(inflight) :
          (PollAnswersOutput(r) /\ IsImage(lastAnswer'.resp))
             => lastAnswer'.resp = Json(SlicesInOrder(JobMeta, ImageDivisions))]_vars

\* C2: once a poll for job id J has returned the image, every later poll for
\* J that the worker answers gets the no-such-job answer (the empty result).
C2_LaterPollNoSuchJob ==
    [][\A r \in BagToSet(inflight) :
          (PollAnswersOutput(r) /\ r.late) => lastAnswer'.resp = Json(EmptyString)]_vars

\* The job the worker is rendering, and the slices collected for it so far.
Collected == Cardinality({i \in 1..Len(slaves) : slaves[i].st = "ok"})

\* C3: a poll for a known job with k < D slices collected returns
\* "not finished (k/D)" with k the number of slices collected so far.
C3_PollReportsProgress ==
    [][(PollAnswers /\ wpc = "join" /\ lastAnswer'.path = UuidToString(wid)
             /\ Collected < ImageDivisions)
          => lastAnswer'.resp = NotFinished(Collected, ImageDivisions)]_vars

\* C4: a poll with a malformed job id is answered "invalid id" (and a poll
\* with a well-formed unknown id "no such job"), unless turned away as busy.
C4_MalformedIdIsInvalid ==
    [][(PollAnswers /\ lastAnswer'.path = MalformedId /\ lastAnswer'.resp # Busy)
          => lastAnswer'.resp = InvalidId]_vars

C6_OneRequestPerDivision ==
    wpc = "join" =>
       /\ Len(slaves) = ImageDivisions
       /\ \A d \in 0..(ImageDivisions - 1) :
             Cardinality({i \in 1..Len(slaves) : slaves[i].req.division_no = d}) = 1
       /\ \A i \in 1..Len(slaves) :
             /\ slaves[i].req.render_meta.width = ImageWidth
             /\ slaves[i].req.render_meta.height = ImageHeight
             /\ slaves[i].req.render_meta.divisions = ImageDivisions
             /\ slaves[i].req.render_meta.id = wid

SliceRows(slice) == {slice.image[i].row : i \in 1..Len(slice.image)}

\* C8: the slices of two different divisions of a frame hold disjoint rows,
\* and the slices of all D divisions together hold every row 0..H-1.
C8_DivisionsPartitionRows ==
    /\ \A i, j \in 1..Len(posts) :
          posts[i].division_no # posts[j].division_no
             => SliceRows(posts[i]) \cap SliceRows(posts[j]) = {}
    /\ {posts[i].division_no : i \in 1..Len(posts)} = 0..(sframe.divisions - 1)
          => UNION {SliceRows(posts[i]) : i \in 1..Len(posts)} = 0..(sframe.height - 1)

\* The lifecycle stage of an issued job, as a number: Created 0,
\* Dispatched/Collecting(k) 1 + k, Complete D + 2, Finalized D + 3.
Stage(J) ==
    IF \E i \in 1..Len(chanW) : chanW[i] = [type |-> "NewJob", job |-> J] THEN 0
    ELSE IF wid = J THEN 1 + Collected
    ELSE IF UuidToString(J) \in DOMAIN results THEN ImageDivisions + 2
    ELSE ImageDivisions + 3

C10_IncompleteNeverServed ==
    [][\A r \in BagToSet(inflight) : \A J \in issued :
          (PollAnswersOutput(r) /\ r.path = UuidToString(J)
                /\ Stage(J) <= ImageDivisions)
             => lastAnswer'.resp = Busy]_vars

\* The index request r is answered in this step with the id of its job.
IndexAnswers(r) ==
    /\ BagIn(r, inflight)
    /\ r.kind = "index"
    /\ inflight' = Take(r)
    /\ lastAnswer' = Answer("index", EmptyString, UuidToString(r.id))

\* C11: index answers the job id without waiting for the worker: at the
\* answer the job is still Created (its NewJob is queued, no division has been
\* dispatched or answered, nothing is stored for it), and the answering step
\* changes no worker state.
C11_SubmitReturnsBeforeRender ==
    [][\A r \in BagToSet(inflight) :
          IndexAnswers(r)
             => /\ Stage(r.id)' = 0
                /\ UuidToString(r.id) \notin DOMAIN results'
                /\ wid' # r.id
                /\ UNCHANGED <<flag, wpc, wid, slaves, results>>]_vars

\* A job id has just been answered while its job is Created and the worker
\* is still collecting the divisions of an earlier job.
C11_Witness ==
    /\ lastAnswer = Answer("index", EmptyString, UuidToString(2))
    /\ Stage(2) = 0
    /\ wpc = "join"
    /\ wid = 1
    /\ Collected < ImageDivisions

\* C12: the outcome of concurrent submits and polls equals that of some
\* sequential order of them. In every sequential order a poll for a text
\* that names no job is answered the empty result, so: a poll for such a text
\* that the worker answers is never answered an image.
C12_PollsAreSequential ==
    [][\A r \in BagToSet(inflight) :
          (PollAnswersOutput(r) /\ r.path = MalformedId)
             => ~IsImage(lastAnswer'.resp)]_vars


\* A slice is posted to the result endpoint in this step for a job of the table.
ResultForKnownJob ==
    /\ tlast'.op = "result"
    /\ tlast'.seq # tlast.seq
    /\ tlast'.id \in DOMAIN jobs

C14_RowsWriteOwnBytes ==
    \A i \in 0..(Len(render_buff) - 1) :
        LET row == i \div (rsize.width * 3)
            x == (i % (rsize.width * 3)) \div 3
            c == i % 3
        IN render_buff[i + 1] = IF x < rprog[row]
                        THEN PixByte(x, rsize.height - row - 1, c)
                        ELSE ZeroByte

\* Row tasks have interleaved: a later row is finished while an earlier one
\* is part written, in an image of more than one pixel per row.
C14_Witness ==
    \E r1, r2 \in DOMAIN rprog :
        /\ r1 < r2
        /\ rprog[r2] = rsize.width
        /\ 0 < rprog[r1]
        /\ rprog[r1] < rsize.width


\* C15: after Camera::new and after any sequence of setter calls, horizontal,
\* vertical and lower_left_corner (and every other field) are the values
\* Camera::new computes from the camera's current parameters.
C15_DerivedFieldsFollowParameters ==
    camera = CameraNew(camera.origin, camera.aspect_ratio, camera.aperture,
                       camera.focus_distance, camera.field_of_view,
                       camera.focal_length, camera.image_height)

\* Every one of the five setters has moved the camera away from the one render
\* made.
C15_Witness ==
    /\ camera.origin # RenderCamera.origin
    /\ camera.field_of_view # RenderCamera.field_of_view
    /\ camera.focal_length # RenderCamera.focal_length
    /\ camera.focus_distance # RenderCamera.focus_distance
    /\ camera.aperture # RenderCamera.aperture
    /\ camera.lower_left_corner # RenderCamera.lower_left_corner
    /\ camera.horizontal # RenderCamera.horizontal

\* C16: the ray get_ray returns starts at the camera origin plus the sampled
\* lens offset and points from there to the focal point.
C16_RayLeavesLensPoint ==
    shot.taken =>
        /\ shot.ray.origin = VAdd(camera.origin, shot.offset)
        /\ shot.ray.direction =
               NormalizeOrZero(VSub(shot.focal_point, shot.ray.origin))


\* Every test of tests has been run on the probe.
AllDone(tests) == \A t \in tests : t \in DOMAIN verdict /\ verdict[t].done

NoZeroComponent(a) ==
    /\ VFinite(a)
    /\ a.x # F(0)
    /\ a.y # F(0)
    /\ a.z # F(0)

\* C18: for a ray with no zero direction component and any box,
\* intersects_aabb, intersects_aabb_naive and intersects_aabb_branchless give
\* the same hit/no-hit result.
C18_AabbTestsAgree ==
    (AllDone(AabbTests) /\ NoZeroComponent(probe.ray.direction)) =>
        /\ verdict["intersects_aabb"].hit = verdict["intersects_aabb_naive"].hit
        /\ verdict["intersects_aabb"].hit = verdict["intersects_aabb_branchless"].hit

\* C19: a ray gen_ray_to_aabb aims at the center of the box it grew from two
\* points is reported as intersecting the box by each of the three tests.
C19_RayAtCenterIntersects ==
    probe.made_by = "gen_ray_to_aabb" =>
        \A t \in AabbTests : verdict[t].done => verdict[t].hit


\* C20: for a ray aimed at a point inside a triangle, intersects_triangle and
\* Triangle::get_roots report a hit at a finite distance when the origin is
\* strictly on the front side, and no hit when it is on the back side or in
\* the triangle's plane.
C20_TriangleFrontHitsBackCulled ==
    probe.made_by = "test_ray_hits_triangle" =>
        /\ verdict["intersects_triangle"].done =>
               IF probe.on_back_side
               THEN verdict["intersects_triangle"].intersects.distance = INFINITY
               ELSE IsFinite(verdict["intersects_triangle"].intersects.distance)
        /\ verdict["get_roots"].done =>
               IF probe.on_back_side
               THEN verdict["get_roots"].roots = <<>>
               ELSE /\ Len(verdict["get_roots"].roots) = 1
                    /\ IsFinite(verdict["get_roots"].roots[1])


\* C17: the candidates BVH traverse returns hold every shape the test of all
\* shapes reports as intersected by the ray, so the nearest hit among the
\* candidates is the nearest hit of the whole scene.
C17_TraverseHasNoFalseNegatives ==
    probe.made_by = "ray_color" =>
        /\ verdict["traverse"].done =>
               \A i \in 1..Len(probe.world) :
                   get_intersection_point(probe.world[i], probe.ray).some =>
                       \E k \in DOMAIN verdict["traverse"].world_sub :
                           verdict["traverse"].world_sub[k] = i
        /\ (verdict["intersect"].done /\ verdict["to_ref_intersect"].done) =>
               verdict["intersect"].table = verdict["to_ref_intersect"].table


\* ------------------------------------------- points of intersection
\* The shapes a single ray is tested against: those of the scenes, and
\* shapes with a root at a bound of the range.
PointShapes ==
    Shapes \cup
    {SphereNew(F(1), IVec(1, 1, -998)),
     SphereNew(F(1000), IVec(1, 1, 3)),
     SphereNew(Frac(1, 1000), IVec(1, 1, 3)),
     TriangleNew(IVec(0, 0, -997), IVec(4, 0, -997), IVec(0, 4, -997))}

PointTests == {"get_roots", "get_intersection_point"}

\* One shape and one ray, nothing computed yet.
BInitPoint ==
    /\ \E object \in PointShapes, r \in TraceRays :
          /\ Computable(<<object>>, RayNew(r[1], r[2]))
          /\ probe = [made_by |-> "intersect",
                      object |-> object,
                      ray |-> RayNew(r[1], r[2])]
    /\ verdict = [t \in PointTests |-> NoResult]

\* object.get_roots(ray)
ObjectRoots ==
    /\ "get_roots" \in DOMAIN verdict
    /\ probe.made_by = "intersect"
    /\ ~verdict["get_roots"].done
    /\ verdict' = [verdict EXCEPT !["get_roots"] =
                       [done |-> TRUE,
                        roots |-> ObjectGetRoots(probe.object, probe.ray)]]
    /\ UNCHANGED probe
    /\ UNCHANGED <<cvars, svars, tvars, rvars, kvars>>

\* object.get_intersection_point(ray)
GetIntersectionPoint ==
    /\ "get_intersection_point" \in DOMAIN verdict
    /\ ~verdict["get_intersection_point"].done
    /\ verdict' = [verdict EXCEPT !["get_intersection_point"] =
                       [done |-> TRUE,
                        point |-> get_intersection_point(probe.object, probe.ray)]]
    /\ UNCHANGED probe
    /\ UNCHANGED <<cvars, svars, tvars, rvars, kvars>>

PointNext ==
    \/ ObjectRoots
    \/ GetIntersectionPoint

PointInit ==
    /\ CInit
    /\ SInitAt([width |-> ImageWidth, height |-> ImageHeight, divisions |-> ImageDivisions])
    /\ TInit
    /\ RInitAt(1, 1)
    /\ KInit
    /\ BInitPoint

\* get_roots and get_intersection_point of a shape and a ray drawn at the start.
SpecPoint == PointInit /\ [][PointNext]_vars

\* The roots of the probe's shape, as a set.
RootSet == {ObjectGetRoots(probe.object, probe.ray)[i] :
              i \in 1..Len(ObjectGetRoots(probe.object, probe.ray))}

\* The least element of a non-empty set of finite numbers.
Least(ts) == CHOOSE t \in ts : \A u \in ts : FLe(t, u)

\* The answer of get_intersection_point when the roots that count are good.
PointIsLeastOf(good) ==
    verdict["get_intersection_point"].point =
        IF good = {} THEN NoPoint ELSE SomePoint(RayAt(probe.ray, Least(good)))

\* C21 as stated: get_intersection_point returns the point at the smallest
\* root t with T_MIN <= t <= T_MAX, and no point exactly when there is no
\* such root.
C21_SmallestRootInClosedRange ==
    (probe.made_by = "intersect" /\ verdict["get_intersection_point"].done) =>
        PointIsLeastOf({t \in RootSet : FLe(T_MIN, t) /\ FLe(t, T_MAX)})

\* C21 amended: get_intersection_point returns the point at the smallest
\* root t with T_MIN <= t < T_MAX (T_MIN included, T_MAX excluded), and no
\* point exactly when there is no such root.
C21_SmallestRootInHalfOpenRange ==
    (probe.made_by = "intersect" /\ verdict["get_intersection_point"].done) =>
        PointIsLeastOf({t \in RootSet : FLe(T_MIN, t) /\ FLt(t, T_MAX)})

\* A shape with a root equal to T_MAX has been tested and gave no point.
C21_Witness ==
    /\ probe.made_by = "intersect"
    /\ verdict["get_intersection_point"].done
    /\ T_MAX \in RootSet
    /\ verdict["get_intersection_point"].point = NoPoint


\* --------------------------------------------------------------- ray_color
MaxDepth == 3

\* Color
Color(r, g, b) == [r |-> r, g |-> g, b |-> b]

BLACK == Color(F(0), F(0), F(0))

WHITE == Color(F(1), F(1), F(1))

\* Color::blend
blend(self, other) ==
    Color(FMul(self.r, other.r), FMul(self.g, other.g), FMul(self.b, other.b))

\* f32 * Color
ColorScale(t, c) == Color(FMul(c.r, t), FMul(c.g, t), FMul(c.b, t))

\* Color + Color
ColorAdd(c1, c2) == Color(FAdd(c1.r, c2.r), FAdd(c1.g, c2.g), FAdd(c1.b, c2.b))

\* The material arguments of Sphere::new and Triangle::new.
WithMaterial(object, p_roughness_at, p_albedo_at, p_emission_at) ==
    [shape |-> object.shape,
     geometry |-> object,
     p_roughness_at |-> p_roughness_at,
     p_albedo_at |-> p_albedo_at,
     p_emission_at |-> p_emission_at]

\* Object::normal_at
normal_at(self, point) ==
    IF self.shape = "Triangle"
    THEN NormalizeOrZero(Cross(VSub(self.a, self.b), VSub(self.a, self.c)))
    ELSE NormalizeOrZero(VSub(point, self.center))

\* The IntersectionTable intersect maps the nearest hit to.
IntersectionTable(hit, materials) ==
    IF ~hit.some THEN NoTable
    ELSE [some |-> TRUE,
          emission |-> materials[hit.object].p_emission_at,
          point |-> hit.point,
          normal |-> normal_at(materials[hit.object].geometry, hit.point),
          albedo |-> materials[hit.object].p_albedo_at,
          roughness |-> materials[hit.object].p_roughness_at]

\* try_normalize().unwrap_or(fallback)
TryNormalizeOr(a, fallback) ==
    LET rcp == FRecip(VLength(a))
    IN IF IsFinite(rcp) /\ FGt(rcp, F(0)) THEN VScale(rcp, a) ELSE fallback

\* diffuse_dir
DiffuseDir(sample, table) == VAdd(sample, table.normal)

\* glossy_dir
GlossyDir(direction, table) ==
    VSub(direction, VScale(FMul(F(2), Dot(direction, table.normal)), table.normal))

\* scatter_direction
ScatterDirection(sample, direction, table) ==
    VAdd(DiffuseDir(sample, table),
         VScale(table.roughness,
                VSub(GlossyDir(direction, table), DiffuseDir(sample, table))))

\* The colour ray_color gives a ray that hits nothing.
SkyColor(direction) ==
    LET t == FAdd(FMul(NormalizeOrZero(direction).y, Frac(1, 2)), F(1))
    IN ColorAdd(ColorScale(t, WHITE),
                ColorScale(FSub(F(1), t), Color(Frac(3, 10), Frac(3, 10), Frac(4, 5))))

\* The scene of ray_color: a floor, and over it a ceiling that may be a light.
Floor == TriangleNew(IVec(-8, -8, 0), IVec(24, -8, 0), IVec(-8, 24, 0))

Ceiling == TriangleNew(IVec(-8, -8, 4), IVec(-8, 24, 4), IVec(24, -8, 4))

Roughnesses == {F(0), Frac(1, 2), F(1)}

Emissions == {F(0), F(2)}

ColorScenes ==
    {<<WithMaterial(Floor, roughness, Color(Frac(1, 2), Frac(1, 4), F(1)), F(0))>> :
        roughness \in Roughnesses}
    \cup
    {<<WithMaterial(Floor, roughness, Color(Frac(1, 2), Frac(1, 4), F(1)), F(0)),
       WithMaterial(Ceiling, roughness, Color(F(1), Frac(1, 2), Frac(1, 3)), emission)>> :
        roughness \in Roughnesses, emission \in Emissions}

\* The rays render gives ray_color.
ColorRays ==
    {<<IVec(0, 0, 2), IVec(0, 0, -1)>>,
     <<IVec(0, 0, 2), IVec(0, 0, 1)>>,
     <<IVec(0, 0, 2), IVec(0, 1, 0)>>,
     <<IVec(0, 0, 2), IVec(3, 0, -4)>>}

\* The values of UnitSphere.sample(rng).
SphereSamples ==
    {IVec(0, 0, 1), IVec(0, 0, -1),
     Vec(Frac(24, 25), F(0), Frac(-7, 25)),
     Vec(Frac(24, 25), F(0), Frac(7, 25))}

\* The shapes of a scene.
Geometry(materials) == [i \in 1..Len(materials) |-> materials[i].geometry]

NoScatter == [happened |-> FALSE]

\* ray_color is entered with a ray and a depth; pending holds the albedo of
\* each call that waits for the colour of its recursive call.
Call(ray, depth, pending, queries, throughput) ==
    [done |-> FALSE, pc |-> "call", ray |-> ray, depth |-> depth,
     pending |-> pending, value |-> BLACK, queries |-> queries,
     throughput |-> throughput, terminal |-> BLACK, scatter |-> NoScatter]

\* The innermost call returns value; terminal is the colour the path ended in.
Return(v, value, queries) ==
    [v EXCEPT !.pc = "return", !.value = value, !.terminal = value,
              !.queries = queries, !.done = (v.pending = <<>>)]

\* render calls ray_color(&r, &world, max_bounces, &mut rng, &bvh).
BInitColor ==
    /\ \E materials \in ColorScenes, r \in ColorRays, depth \in 0..MaxDepth :
          /\ probe = [made_by |-> "render",
                      materials |-> materials,
                      world |-> Geometry(materials),
                      bvh |-> BvhBuild(Geometry(materials)),
                      ray |-> RayNew(r[1], r[2]),
                      depth |-> depth]
          /\ verdict = [t \in {"ray_color"} |->
                           Call(RayNew(r[1], r[2]), depth, <<>>, 0, WHITE)]

\* bvh.traverse(ray, &v), then intersect over the candidates.
Query(ray) ==
    IntersectionTable(intersect(traverse(probe.bvh, ray, probe.world), probe.world, ray),
                      probe.materials)

\* A call of ray_color waits at its entry.
AtCall == "ray_color" \in DOMAIN verdict /\ verdict["ray_color"].pc = "call"

\* A call that queries the scene at depth 0 as well.
RayColorNoDepthCheck ==
    /\ AtCall
    /\ verdict["ray_color"].depth = 0
    /\ verdict' = [verdict EXCEPT !["ray_color"] =
                       Return(@, SkyColor(@.ray.direction), @.queries + 1)]
    /\ UNCHANGED probe
    /\ UNCHANGED <<cvars, svars, tvars, rvars, kvars>>

\* if depth == 0 { return color::BLACK; }
RayColorDepthZero ==
    /\ AtCall
    /\ verdict["ray_color"].depth = 0
    /\ verdict' = [verdict EXCEPT !["ray_color"] = Return(@, BLACK, @.queries)]
    /\ UNCHANGED probe
    /\ UNCHANGED <<cvars, svars, tvars, rvars, kvars>>

\* None => the sky colour
RayColorMiss ==
    /\ AtCall
    /\ verdict["ray_color"].depth > 0
    /\ ~Query(verdict["ray_color"].ray).some
    /\ verdict' = [verdict EXCEPT !["ray_color"] =
                       Return(@, SkyColor(@.ray.direction), @.queries + 1)]
    /\ UNCHANGED probe
    /\ UNCHANGED <<cvars, svars, tvars, rvars, kvars>>

\* Some(table) with table.emission > 0: table.emission * table.albedo
RayColorLight ==
    /\ AtCall
    /\ verdict["ray_color"].depth > 0
    /\ \E table \in {Query(verdict["ray_color"].ray)} :
          /\ table.some
          /\ FGt(table.emission, F(0))
          /\ verdict' = [verdict EXCEPT !["ray_color"] =
                             Return(@, ColorScale(table.emission, table.albedo),
                                    @.queries + 1)]
    /\ UNCHANGED probe
    /\ UNCHANGED <<cvars, svars, tvars, rvars, kvars>>

\* A recursive call that keeps the depth.
SameDepth(depth) == depth

\* depth - 1
Deeper(depth) == depth - 1

\* Some(table) otherwise: the scattered ray is traced with depth - 1 and
\* table.albedo waits to be blended with its colour.
RayColorScatter ==
    /\ AtCall
    /\ verdict["ray_color"].depth > 0
    /\ \E table \in {Query(verdict["ray_color"].ray)}, sample \in SphereSamples :
          /\ table.some
          /\ ~FGt(table.emission, F(0))
          /\ \E scatter_direction \in
                 {ScatterDirection(sample, verdict["ray_color"].ray.direction, table)} :
                /\ HasLength(scatter_direction)
                /\ verdict' = [verdict EXCEPT !["ray_color"] =
                       [Call(RayNew(table.point,
                                    TryNormalizeOr(scatter_direction, table.normal)),
                             Deeper(@.depth),
                             Append(@.pending, table.albedo),
                             @.queries + 1,
                             blend(@.throughput, table.albedo))
                        EXCEPT !.scatter = [happened |-> TRUE,
                                            table |-> table,
                                            sample |-> sample,
                                            incoming |-> verdict["ray_color"].ray.direction,
                                            scatter_direction |-> scatter_direction]]]
    /\ UNCHANGED probe
    /\ UNCHANGED <<cvars, svars, tvars, rvars, kvars>>

\* The record of ray_color after its innermost waiting call has returned value.
Unwound(v, value) ==
    [v EXCEPT !.value = value,
              !.pending = SubSeq(v.pending, 1, Len(v.pending) - 1),
              !.done = (Len(v.pending) = 1)]

\* A return that hands the colour on without the albedo.
RayColorReturnUnblended ==
    /\ "ray_color" \in DOMAIN verdict
    /\ verdict["ray_color"].pc = "return"
    /\ ~verdict["ray_color"].done
    /\ verdict' = [verdict EXCEPT !["ray_color"] = Unwound(@, @.value)]
    /\ UNCHANGED probe
    /\ UNCHANGED <<cvars, svars, tvars, rvars, kvars>>

\* table.albedo.blend(&ray_color(..)): the waiting call returns.
RayColorReturn ==
    /\ "ray_color" \in DOMAIN verdict
    /\ verdict["ray_color"].pc = "return"
    /\ ~verdict["ray_color"].done
    /\ verdict' = [verdict EXCEPT !["ray_color"] =
                       Unwound(@, blend(@.pending[Len(@.pending)], @.value))]
    /\ UNCHANGED probe
    /\ UNCHANGED <<cvars, svars, tvars, rvars, kvars>>

ColorNext ==
    \/ RayColorDepthZero
    \/ RayColorMiss
    \/ RayColorLight
    \/ RayColorScatter
    \/ RayColorReturn

ColorInit ==
    /\ CInit
    /\ SInitAt([width |-> ImageWidth, height |-> ImageHeight, divisions |-> ImageDivisions])
    /\ TInit
    /\ RInitAt(1, 1)
    /\ KInit
    /\ BInitColor

\* One call of ray_color by render, on a scene, a ray and a depth drawn at
\* the start, with the samples drawn as the path goes.
SpecColor == ColorInit /\ [][ColorNext]_vars


\* ray_color has returned to render.
Rendered == probe.made_by = "render" /\ verdict["ray_color"].done

\* C22: on a non-emissive hit, roughness 0 gives the mirror-reflected
\* direction incoming - 2 (incoming . normal) normal as the scatter
\* direction, and roughness 1 gives the diffuse direction, normal plus the
\* unit-sphere sample.
C22_RoughnessBlendsMirrorToDiffuse ==
    (probe.made_by = "render" /\ verdict["ray_color"].scatter.happened) =>
        LET s == verdict["ray_color"].scatter
        IN /\ s.table.roughness = F(0) =>
                  s.scatter_direction =
                      VSub(s.incoming,
                           VScale(FMul(F(2), Dot(s.incoming, s.table.normal)),
                                  s.table.normal))
           /\ s.table.roughness = F(1) =>
                  s.scatter_direction = VAdd(s.table.normal, s.sample)


\* A scatter at roughness 0 off the floor, of a ray that came in at a slant.
C22_Probe ==
    /\ probe.made_by = "render"
    /\ verdict["ray_color"].scatter.happened
    /\ verdict["ray_color"].scatter.table.roughness = F(0)
    /\ verdict["ray_color"].scatter.incoming = Vec(Frac(3, 5), F(0), Frac(-4, 5))
    /\ verdict["ray_color"].scatter.sample = IVec(0, 0, 1)
    /\ verdict["ray_color"].scatter.scatter_direction = IVec(0, 0, 2)

\* C23: a call of ray_color with depth 0, by render or by ray_color itself,
\* returns black and makes no query of the scene (the queries made are
\* those of the calls before it, one for each unit of depth used up), so a
\* path that hit a non-emissive surface at every one of its bounces gives
\* render black.
C23_DepthZeroIsBlack ==
    (probe.made_by = "render" /\ verdict["ray_color"].depth = 0) =>
        /\ verdict["ray_color"].queries = probe.depth
        /\ verdict["ray_color"].pc = "return" => verdict["ray_color"].terminal = BLACK
        /\ verdict["ray_color"].done => verdict["ray_color"].value = BLACK

\* A call by render with the greatest depth has returned after its path
\* was scattered at every bounce and the last call had depth 0.
C23_Witness ==
    /\ Rendered
    /\ verdict["ray_color"].depth = 0
    /\ verdict["ray_color"].queries = probe.depth
    /\ probe.depth = MaxDepth

Running == probe.made_by = "render" /\ ~verdict["ray_color"].done

\* ENABLED <<ColorNext>>_vars, written out: the waiting call can return, or
\* the call at its entry can take one of its branches.
CanStep ==
    \/ verdict["ray_color"].pc = "return" /\ verdict["ray_color"].pending # <<>>
    \/ /\ verdict["ray_color"].pc = "call"
       /\ \/ verdict["ray_color"].depth = 0
          \/ \E table \in {Query(verdict["ray_color"].ray)} :
                \/ ~table.some
                \/ FGt(table.emission, F(0))
                \/ \E sample \in SphereSamples :
                      HasLength(ScatterDirection(sample,
                                                 verdict["ray_color"].ray.direction,
                                                 table))

\* ray_color runs on its thread until it returns: weak fairness of
\* ColorNext, with ENABLED <<ColorNext>>_vars written as Running (CanStep
\* holds in every running state).
SpecColorFair == SpecColor /\ ([]<>(~Running) \/ []<><<ColorNext>>_vars)

\* C25: ray_color called with depth n returns to its caller after at most n
\* queries of the scene: each recursive call is made with depth - 1, so a
\* call entered after k queries has depth n - k, and no call is made at a
\* light, on a miss or at depth 0.
C25_ReturnsWithinDepthQueries ==
    /\ [](probe.made_by = "render" =>
              /\ verdict["ray_color"].queries <= probe.depth
              /\ verdict["ray_color"].pc = "call" =>
                     verdict["ray_color"].queries + verdict["ray_color"].depth = probe.depth
              /\ Running => CanStep)
    /\ (probe.made_by = "render") ~> Rendered

\* A call with the greatest depth has used every one of its queries on
\* non-emissive hits and has returned.
C25_Witness ==
    /\ Rendered
    /\ probe.depth = MaxDepth
    /\ verdict["ray_color"].queries = MaxDepth
    /\ verdict["ray_color"].scatter.happened


\* A NewJob waits in the worker's channel.
JobQueued == \E i \in 1..Len(chanW) : chanW[i].type = "NewJob"

\* C26: the busy flag makes jobs exclude each other: index accepts a
\* submission (sends NewJob and answers the job id) only when no job accepted
\* earlier is still queued or being rendered, and a submission answered
\* "We're busy" puts nothing in the worker's channel.
C26_BusyFlagExcludesJobs ==
    [][/\ \A r \in BagToSet(inflight) :
             IndexAnswers(r) => (~JobQueued /\ wpc # "join")
       /\ (lastAnswer'.kind = "index" /\ lastAnswer'.resp = Busy) => chanW' = chanW]_vars


\* C27: the Output a poll for job id X receives is the one the worker
\* produced for its own Get(X), never the one produced for the Get of
\* another poll for a different id: at the answer nothing is left stored
\* for X (the worker has removed it for this Get), and an image is answered
\* only for the id of a job.
C27_PollReceivesItsOwnOutput ==
    [][\A r \in BagToSet(inflight) :
          PollAnswersOutput(r)
             => /\ r.path \notin DOMAIN results
                /\ IsImage(lastAnswer'.resp)
                      => r.path \in {UuidToString(u) : u \in issued}]_vars


\* The controller with its threads running: the worker thread takes the
\* next message and finishes its join when it can, and every request to a
\* slave is answered or fails.
SpecLive ==
    /\ Spec
    /\ WF_vars(WorkerNewJob)
    /\ WF_vars(WorkerGet)
    /\ WF_vars(WorkerJoin)
    /\ WF_vars(\E i \in 1..Len(slaves) : RequestAnswered(i) \/ RequestFailed(i))

\* C28: once the worker has set the busy flag for an accepted job, the flag
\* is eventually reset to false, also when a request to a slave fails.
C28_FlagEventuallyReset == flag ~> ~flag


\* The bytes of a slice: each buffer row holds width * 3 of them.
SliceBytes(slice) == Len(slice.image) * sframe.width * 3

RECURSIVE JobBytes(_, _)
\* The bytes of the slices of job u among the first n posted.
JobBytes(u, n) ==
    IF n = 0 THEN 0
    ELSE JobBytes(u, n - 1) + (IF posts[n].id = u THEN SliceBytes(posts[n]) ELSE 0)

\* The slices posted for job u are one for each division 0..D-1.
AllDivisionsPosted(u) ==
    /\ {posts[i].division_no : i \in {j \in 1..Len(posts) : posts[j].id = u}}
           = 0..(sframe.divisions - 1)
    /\ Cardinality({j \in 1..Len(posts) : posts[j].id = u}) = sframe.divisions

\* C29: every slice holds (H / D) * W * 3 bytes, and the D slices of a job
\* together hold H * W * 3 bytes, the bytes of all H rows, also when D does
\* not divide H.
C29_SlicesHoldWholeFrame ==
    /\ \A i \in 1..Len(posts) :
          SliceBytes(posts[i]) = (sframe.height \div sframe.divisions) * sframe.width * 3
    /\ \A u \in SlaveJobIds :
          AllDivisionsPosted(u) =>
              JobBytes(u, Len(posts)) = sframe.height * sframe.width * 3


\* A poll returns the image of a job of the table in this step (and removes
\* the job).
PollReturnsImage ==
    /\ tlast'.op = "poll"
    /\ tlast'.id \in DOMAIN jobs
    /\ tlast'.id \notin DOMAIN jobs'

====
